---- MODULE Spec2Model ----
(***************************************************************************)
(* Model of gizmo_library/time_evolution.py: the time-evolution            *)
(* aggregator Dust_Evo and its state object Dust_Evo_Data; of              *)
(* weighted_percentile and compile_dust_data of dust_plots.py; and of the  *)
(* Figure of crc_scripts/figure.py.                                        *)
(*                                                                         *)
(* Python arrays are 0-based, TLA+ sequences 1-based: array position i of  *)
(* the source is element i + 1 of the sequence that models the array.      *)
(* snap_lims is the pair <<lower, upper>>: snap_lims[0] of the source is   *)
(* snap_lims[1] here, snap_lims[1] of the source is snap_lims[2] here.     *)
(***************************************************************************)
EXTENDS Integers, Sequences, FiniteSets, TLC

(* ------------------------------ bounds --------------------------------- *)

\* Snapshot numbers range over 0..MaxSnap.
MaxSnap == 2

\* load() is called with increment in 1..MaxInc.
MaxInc == 2

\* At most MaxRaises reads of a session fail.
MaxRaises == 1

Snums == 0..MaxSnap

Increments == 1..MaxInc

\* The inclusive ranges [lo, hi] a caller passes as snap_lims.
Lims == {l \in Snums \X Snums : l[1] <= l[2]}

(* --------------------------- tracked names ----------------------------- *)

\* Dust_Evo.__init__: the names of the tracked quantities (a subset of the
\* defaults, enough to have two totals, the star totals and two subsamples).
totals == {"M_dust", "M_acc_dust"}

medians == {"D/Z", "dz_acc"}

\* 'diffuse' is a subsample name load() has no mask for.
median_subsamples == {"all", "cold", "diffuse"}

star_totals == {"M_star", "sfr"}

\* The keyword arguments a caller may pass to set_halo / set_disk; the
\* default argument of the source is the empty dict.
EmptyKwargs == "{}"

\* The (load_kwargs, set_kwargs) pairs the callers of the model pass.
KwargsPairs == {<<"kwA", "kwB">>, <<"kwB", "kwA">>}

(* ----------------------- the snapshot reader --------------------------- *)
(* gizmo_library/snapshot.py is not part of the sources at hand: what a    *)
(* snapshot holds is a fixed function of its number (the files on disk do  *)
(* not change between reads).                                              *)

\* sp.time and sp.redshift of Snapshot(sdir, snum).
SnapTime(snum) == snum + 1

SnapRedshift(snum) == 2 * (MaxSnap + 1 - snum)

\* np.nansum(G.get_property(prop)) for the selected gas: snapshot 0 (the
\* initial conditions) holds no dust; in snapshot MaxSnap the dust masses of
\* the selected gas are not-a-number, which the sum leaves out, while the
\* masses by source are numbers.
GasTotal(prop, snum) ==
    IF snum = 0 THEN 0
    ELSE IF snum = MaxSnap /\ prop = "M_dust" THEN 0
    ELSE 1000 * (IF prop = "M_dust" THEN 2 ELSE 1) + 100 * snum

\* Mask that takes every name but 'all' for a mask of its own.
MaskByName(name) == IF name = "all" THEN "ones" ELSE name

\* load, lines 334-348: the mask of the median subsample name, the mask of
\* all ones for 'all' and for a name that is not supported.
Mask(name) ==
    IF name = "all" THEN "ones"
    ELSE IF name \in {"cold", "hot", "neutral", "molecular"} THEN name
    ELSE "ones"

\* load, lines 360-364: the mass-weighted median of prop over the selected gas
\* under the mask of the subsample.
GasMedian(subsample, prop, snum) ==
    5000 + (IF Mask(subsample) = "ones" THEN 0 ELSE 500) + 100 * snum

\* S.npart of the selected stars: snapshot 0 holds no star.
StarNpart(snum) == IF snum = 0 THEN 0 ELSE snum

StarTotal(prop, snum) ==
    (IF prop = "M_star" THEN 8000 ELSE 9000) + 100 * snum

\* load, lines 317-379: the calls of the snapshot reader load() makes for
\* one snapshot, in the order it makes them, the keys of the dictionaries
\* in the order Dust_Evo.__init__ lists them. Each call is followed by the
\* stores load() makes once it returned. "snapshot" is Snapshot() of line
\* 317; "galaxy" the calls of lines 323-332; "stars" gal.loadpart(4) of
\* line 368 and, when stars were selected, S.get_property('M') of line 374.
ReadCalls ==
    <<[stage |-> "snapshot", kind |-> "header", sub |-> "", prop |-> ""],
      [stage |-> "galaxy", kind |-> "none", sub |-> "", prop |-> ""],
      [stage |-> "M_dust", kind |-> "total", sub |-> "", prop |-> "M_dust"],
      [stage |-> "M_acc_dust", kind |-> "total", sub |-> "", prop |-> "M_acc_dust"],
      [stage |-> "all D/Z", kind |-> "median", sub |-> "all", prop |-> "D/Z"],
      [stage |-> "all dz_acc", kind |-> "median", sub |-> "all", prop |-> "dz_acc"],
      [stage |-> "cold D/Z", kind |-> "median", sub |-> "cold", prop |-> "D/Z"],
      [stage |-> "cold dz_acc", kind |-> "median", sub |-> "cold", prop |-> "dz_acc"],
      [stage |-> "diffuse D/Z", kind |-> "median", sub |-> "diffuse", prop |-> "D/Z"],
      [stage |-> "diffuse dz_acc", kind |-> "median", sub |-> "diffuse", prop |-> "dz_acc"],
      [stage |-> "stars", kind |-> "stars", sub |-> "", prop |-> "M_star"],
      [stage |-> "age", kind |-> "age", sub |-> "", prop |-> "sfr"]>>

\* Where reading a snapshot can fail: the reader raises in one of its calls.
FailStages == {ReadCalls[k].stage : k \in 1..Len(ReadCalls)}

NoFail == [snum |-> -1, stage |-> "none"]

\* What one load() call meets on disk: every snapshot readable, or one
\* snapshot whose read fails at a stage.
Fails == {NoFail} \cup [snum : Snums, stage : FailStages]

(* ------------------------------ state ---------------------------------- *)

VARIABLES
    dust_evo_data,  \* the Dust_Evo_Data object (of a Dust_Evo, or on its own)
    evo,            \* the Dust_Evo object's own fields
    file,           \* the cache file dirc+name+'.pickle': NoFile or the pickled object
    pc,             \* position of Dust_Evo.load: idle, or in its while loop
    last,           \* the last call: operation, arguments, what it reported
    hist,           \* history of the calls since construction
    instances,      \* the Dust_Evo objects of a driver that makes several
    dirc_files,     \* the files of the directory dirc, by path
    percentile,     \* a weighted_percentile call: its arguments, what it gave
    compiled,       \* a compile_dust_data call: its arguments, its loop, its arrays
    figure          \* a Figure object and the calls made on it

vars ==
    <<dust_evo_data, evo, file, pc, last, hist, instances, dirc_files,
      percentile, compiled, figure>>

\* The state of a driver that makes several Dust_Evo objects and of the
\* plotting helpers; the sessions of one object leave it alone.
others == <<instances, dirc_files, percentile, compiled, figure>>

\* The state of the plotting helpers of dust_plots.py and figure.py.
plotting == <<percentile, compiled, figure>>

\* No Dust_Evo object made by such a driver, no file in dirc.
NoInstances == <<>>

NoFiles == <<>>

\* No weighted_percentile call is followed.
NoPercentile == [called |-> FALSE]

\* No compile_dust_data call is followed.
NoCompiled == [at |-> "none"]

\* No Figure was made.
NoFigure == [made |-> FALSE]

\* The plotting helpers are not in use.
PlottingIdle ==
    /\ percentile = NoPercentile
    /\ compiled = NoCompiled
    /\ figure = NoFigure

NoFile == [exists |-> FALSE]

\* No Dust_Evo.load call is running.
Idle == [at |-> "idle", increment |-> 0]

(* --------------------------- Dust_Evo_Data ----------------------------- *)

\* np.zeros(n): n zero-valued slots.
Zeros(n) == [i \in 1..n |-> 0]

\* np.zeros(n, dtype=bool).
Falses(n) == [i \in 1..n |-> FALSE]

\* Dust_Evo_Data.__init__
NewData(snap_lims, cosmological) ==
    LET num_snaps == (snap_lims[2] + 1) - snap_lims[1] IN
    [snap_lims |-> snap_lims,
     num_snaps |-> num_snaps,
     snap_loaded |-> Falses(num_snaps),
     cosmological |-> cosmological,
     time |-> Zeros(num_snaps),
     redshift |-> IF cosmological THEN Zeros(num_snaps) ELSE <<>>,
     total_data |-> [key \in totals |-> Zeros(num_snaps)],
     star_total_data |-> [key \in star_totals |-> Zeros(num_snaps)],
     median_data |-> [sub_key \in median_subsamples |->
                        [key \in medians |-> Zeros(num_snaps)]],
     setHalo |-> FALSE,
     setDisk |-> FALSE,
     load_kwargs |-> EmptyKwargs,
     set_kwargs |-> EmptyKwargs,
     all_snaps_loaded |-> FALSE]

\* PrependSnaps with the upper limit subtracted from.
PrependSnapsFromUpper(self_lims, snap_lims) ==
    IF snap_lims[1] < self_lims[1] THEN self_lims[2] - snap_lims[1] ELSE 0

\* change_snap_lims, lines 250-251: the number of slots to prepend.
PrependSnaps(self_lims, snap_lims) ==
    IF snap_lims[1] < self_lims[1] THEN self_lims[1] - snap_lims[1] ELSE 0

\* change_snap_lims, lines 250-252: self.snap_lims[0] after the first test.
NewLower(self_lims, snap_lims) ==
    IF snap_lims[1] < self_lims[1] THEN snap_lims[1] ELSE self_lims[1]

\* change_snap_lims, lines 253-254: the number of slots to append. The
\* source subtracts self.snap_lims[0], which line 252 may just have lowered.
AppendSnaps(self_lims, snap_lims) ==
    IF snap_lims[2] > self_lims[2]
    THEN snap_lims[2] - NewLower(self_lims, snap_lims)
    ELSE 0

\* change_snap_lims, lines 253-255: self.snap_lims[1] after the second test.
NewUpper(self_lims, snap_lims) ==
    IF snap_lims[2] > self_lims[2] THEN snap_lims[2] ELSE self_lims[2]

\* Pad with the new slots all put at the end.
PadAtEnd(prepend, arr, append) == arr \o Zeros(prepend) \o Zeros(append)

\* np.append(np.concatenate((prepend, arr)), append), lines 258-259.
Pad(prepend, arr, append) == Zeros(prepend) \o arr \o Zeros(append)

\* The same for snap_loaded (line 262): the padding zeros compare equal to
\* False and are falsy, which is all load() and the callers ask of them.
PadLoaded(prepend, arr, append) == Falses(prepend) \o arr \o Falses(append)

\* Dust_Evo_Data.change_snap_lims
change_snap_lims(self, snap_lims) ==
    LET prepend == PrependSnaps(self.snap_lims, snap_lims)
        append == AppendSnaps(self.snap_lims, snap_lims)
    IN [self EXCEPT
          !.snap_lims = <<NewLower(self.snap_lims, snap_lims),
                          NewUpper(self.snap_lims, snap_lims)>>,
          !.num_snaps = (snap_lims[2] + 1) - snap_lims[1],
          !.time = Pad(prepend, self.time, append),
          !.redshift = IF self.cosmological
                       THEN Pad(prepend, self.redshift, append)
                       ELSE self.redshift,
          !.snap_loaded = PadLoaded(prepend, self.snap_loaded, append),
          !.total_data = [key \in totals |->
                            Pad(prepend, self.total_data[key], append)],
          !.star_total_data = [key \in star_totals |->
                            Pad(prepend, self.star_total_data[key], append)],
          !.median_data = [sub_key \in median_subsamples |->
                            [key \in medians |->
                               Pad(prepend, self.median_data[sub_key][key], append)]],
          !.all_snaps_loaded = FALSE]

\* Dust_Evo_Data.set_halo
set_halo(self, load_kwargs, set_kwargs) ==
    IF ~self.setHalo
    THEN [self EXCEPT !.setHalo = TRUE,
                      !.load_kwargs = load_kwargs,
                      !.set_kwargs = set_kwargs]
    ELSE self

\* Dust_Evo_Data.set_disk
set_disk(self, load_kwargs, set_kwargs) ==
    IF ~self.setDisk
    THEN [self EXCEPT !.setDisk = TRUE,
                      !.load_kwargs = load_kwargs,
                      !.set_kwargs = set_kwargs]
    ELSE self


\* load, lines 317-320: the header values of the snapshot are stored.
StoreHeader(self, i, snum) ==
    [self EXCEPT
       !.time[i] = SnapTime(snum),
       !.redshift = IF self.cosmological
                    THEN [self.redshift EXCEPT ![i] = SnapRedshift(snum)]
                    ELSE self.redshift]

\* load, lines 322-327: the selector applied to the snapshot, halo when
\* setHalo, else disk, with the stored keyword arguments.
Selector(self) ==
    [kind |-> IF self.setHalo THEN "halo" ELSE "disk",
     load_kwargs |-> self.load_kwargs,
     set_kwargs |-> self.set_kwargs]

\* No snapshot was read, no selector applied.
NoSelector ==
    [kind |-> "none", load_kwargs |-> EmptyKwargs, set_kwargs |-> EmptyKwargs]

\* load, lines 351-364: the totals, then the medians of every subsample.
StoreGas(self, i, snum) ==
    [self EXCEPT
       !.total_data = [prop \in totals |->
            [self.total_data[prop] EXCEPT ![i] = GasTotal(prop, snum)]],
       !.median_data = [subsample \in median_subsamples |->
            [prop \in medians |->
                [self.median_data[subsample][prop] EXCEPT
                    ![i] = GasMedian(subsample, prop, snum)]]]]

\* StoreStars without the test of S.npart.
StoreStarsUntested(self, i, snum) ==
    [self EXCEPT
       !.star_total_data = [prop \in star_totals |->
            [self.star_total_data[prop] EXCEPT ![i] = StarTotal(prop, snum)]]]

\* load, lines 367-380: the star totals, zero when no star was selected.
StoreStars(self, i, snum) ==
    [self EXCEPT
       !.star_total_data = [prop \in star_totals |->
            [self.star_total_data[prop] EXCEPT
                ![i] = IF StarNpart(snum) = 0
                       THEN 0
                       ELSE StarTotal(prop, snum)]]]

\* MarkLoaded that marks the last position of the array.
MarkLoadedLast(self, i) ==
    [self EXCEPT !.snap_loaded[Len(self.snap_loaded)] = TRUE]

\* load, line 383.
MarkLoaded(self, i) == [self EXCEPT !.snap_loaded[i] = TRUE]

\* load, lines 316-384: one snapshot read and stored in full.
LoadSnap(self, i, snum) ==
    MarkLoaded(StoreStars(StoreGas(StoreHeader(self, i, snum), i, snum), i, snum), i)

\* load, lines 318-380: what load() stores at position i once the reader
\* call has returned. S.get_property('age') is called for a snapshot with
\* stars only (lines 370-379).
StoreAfter(self, i, snum, call) ==
    IF call.kind = "header" THEN StoreHeader(self, i, snum)
    ELSE IF call.kind = "total"
    THEN [self EXCEPT !.total_data[call.prop][i] = GasTotal(call.prop, snum)]
    ELSE IF call.kind = "median"
    THEN [self EXCEPT !.median_data[call.sub][call.prop][i] =
                          GasMedian(call.sub, call.prop, snum)]
    ELSE IF call.kind = "stars"
    THEN IF StarNpart(snum) = 0
         THEN [self EXCEPT !.star_total_data =
                   [prop \in star_totals |-> [self.star_total_data[prop] EXCEPT ![i] = 0]]]
         ELSE [self EXCEPT !.star_total_data[call.prop][i] = StarTotal(call.prop, snum)]
    ELSE IF call.kind = "age" /\ StarNpart(snum) # 0
    THEN [self EXCEPT !.star_total_data[call.prop][i] = StarTotal(call.prop, snum)]
    ELSE self

\* load, lines 317-380, from reader call k on, up to the call that raises.
RECURSIVE StoreUpTo(_, _, _, _, _)
StoreUpTo(self, i, snum, k, stage) ==
    IF k > Len(ReadCalls) \/ ReadCalls[k].stage = stage THEN self
    ELSE StoreUpTo(StoreAfter(self, i, snum, ReadCalls[k]), i, snum, k + 1, stage)

\* Whether the read of snapshot snum makes the reader call of the stage.
Reaches(stage, snum) == stage # "age" \/ StarNpart(snum) # 0

\* load, lines 316-384 when the read raises at stage: what was stored
\* before the exception stays stored, the flag is not set.
PartialLoad(self, i, snum, stage) == StoreUpTo(self, i, snum, 1, stage)

\* BatchFull with > for >=.
BatchFullStrict(snaps_loaded, increment) == snaps_loaded > increment

\* load, line 310: the test that ends a batch.
BatchFull(snaps_loaded, increment) == snaps_loaded >= increment

\* Skip that never skips.
SkipNever(self, i) == FALSE

\* load, line 313: the test that skips a position.
Skip(self, i) == self.snap_loaded[i]

\* load, lines 305-387: the loop over the positions of the range, from
\* position i on. The result holds the object, whether an exception left
\* the call, and the snapshot numbers read, in order (each with the
\* selector of the object).
RECURSIVE LoadLoop(_, _, _, _, _, _)
LoadLoop(self, i, snaps_loaded, increment, fail, reads) ==
    IF i > (self.snap_lims[2] + 1) - self.snap_lims[1]
    THEN [self |-> [self EXCEPT !.all_snaps_loaded = TRUE],
          raised |-> FALSE, reported |-> "none", reads |-> reads]
    ELSE IF BatchFull(snaps_loaded, increment)
    THEN [self |-> self, raised |-> FALSE, reported |-> "none", reads |-> reads]
    ELSE IF Skip(self, i)
    THEN LoadLoop(self, i + 1, snaps_loaded, increment, fail, reads)
    ELSE LET snum == self.snap_lims[1] + (i - 1) IN
         IF fail.snum = snum /\ Reaches(fail.stage, snum)
         THEN [self |-> PartialLoad(self, i, snum, fail.stage),
               raised |-> TRUE, reported |-> "none",
               reads |-> Append(reads, snum)]
         ELSE LoadLoop(LoadSnap(self, i, snum), i + 1, snaps_loaded + 1,
                       increment, fail, Append(reads, snum))

\* Whether a load() call on self can come to read the snapshot of fail: it
\* is a snapshot of the range that is not loaded, and a selector is set. A
\* call that does not read it goes as if every snapshot were readable.
Meets(self, fail) ==
    /\ self.setHalo \/ self.setDisk
    /\ fail.snum >= self.snap_lims[1]
    /\ fail.snum <= self.snap_lims[2]
    /\ ~self.snap_loaded[(fail.snum - self.snap_lims[1]) + 1]

\* Dust_Evo_Data.load
load(self, increment, fail) ==
    IF ~self.setHalo /\ ~self.setDisk
    THEN [self |-> self, raised |-> FALSE, reported |-> "config", reads |-> <<>>]
    ELSE LoadLoop(self, 1, 0, increment, fail, <<>>)


(* --------------------- the log of calls and history -------------------- *)

\* No set_halo / set_disk call yet.
NoCfg ==
    [set |-> FALSE, setHalo |-> FALSE, setDisk |-> FALSE,
     load_kwargs |-> EmptyKwargs, set_kwargs |-> EmptyKwargs]

\* The four selector fields of the object, as a call left them.
Cfg(self) ==
    [set |-> TRUE, setHalo |-> self.setHalo, setDisk |-> self.setDisk,
     load_kwargs |-> self.load_kwargs, set_kwargs |-> self.set_kwargs]

\* The counter of load() calls is kept up to CallCap.
CallCap == MaxSnap + 2

\* The counter of the batches of one Dust_Evo.load call is kept up to BatchCap.
BatchCap == MaxSnap + 4

\* What a get_data call gave: the printed messages, the exception that left
\* it, the returned series and the stored array it shares its memory with.
NoGot ==
    [returned |-> FALSE, series |-> <<>>, shares |-> <<>>, derived |-> FALSE,
     warned |-> FALSE, printed |-> "none", raised |-> "none"]

NoCall ==
    [op |-> "init", snap_lims |-> <<0, 0>>, old_lims |-> <<0, 0>>,
     increment |-> 0, fail |-> NoFail, raised |-> FALSE, reported |-> "none",
     reads |-> <<>>, selector |-> NoSelector, again |-> FALSE,
     kwargs |-> <<EmptyKwargs, EmptyKwargs>>, saved |-> FALSE, inst |-> 0,
     args |-> <<"", "", "">>, got |-> NoGot, wrote |-> 0,
     batches |-> 0, unloaded |-> 0]

\* hist after construction: clean while only load() calls that returned
\* normally, all with the increment inc, were made on the new object;
\* calls counts them.
NewHist ==
    [clean |-> TRUE, calls |-> 0, inc |-> 0,
     halo_first |-> NoCfg, disk_first |-> NoCfg, raises |-> 0]

Unclean(h) == [h EXCEPT !.clean = FALSE, !.calls = 0, !.inc = 0]

\* hist after a batch whose read failed: raises counts the failed reads.
Raised(h, r) == [h EXCEPT !.raises = IF r.raised THEN @ + 1 ELSE @]

\* hist after a load() call with result r.
HistLoad(h, increment, r) ==
    IF r.reported = "config" THEN h
    ELSE IF r.raised \/ ~h.clean \/ h.inc \notin {0, increment}
    THEN Raised(Unclean(h), r)
    ELSE [h EXCEPT !.inc = increment,
                   !.calls = IF h.calls < CallCap THEN h.calls + 1 ELSE CallCap]

(* ------------------ Dust_Evo_Data driven by a caller ------------------- *)

\* Dust_Evo.__init__, lines 35-47 and 63: the fields of the Dust_Evo.
NewEvo(snap_lims, cosmological) ==
    [snap_lims |-> snap_lims,
     num_snaps |-> (snap_lims[2] + 1) - snap_lims[1],
     cosmological |-> cosmological,
     setHalo |-> FALSE,
     setDisk |-> FALSE,
     k |-> 0]

Init ==
    \E snap_lims \in Lims, cosmological \in BOOLEAN :
        /\ dust_evo_data = NewData(snap_lims, cosmological)
        /\ evo = NewEvo(snap_lims, cosmological)
        /\ file = NoFile
        /\ pc = Idle
        /\ last = NoCall
        /\ hist = NewHist
        /\ instances = NoInstances
        /\ dirc_files = NoFiles
        /\ PlottingIdle

\* A call of dust_evo_data.change_snap_lims(snap_lims), snap_lims a list of
\* the caller's. The object is the one Dust_Evo.__init__ made: its snap_lims
\* is the list the Dust_Evo holds as snap_lims too (lines 36, 60 and 215),
\* so what lines 252 and 255 write into it shows in both.
DataChangeSnapLims ==
    /\ pc = Idle
    /\ \E snap_lims \in Lims :
        /\ dust_evo_data' = change_snap_lims(dust_evo_data, snap_lims)
        /\ evo' = [evo EXCEPT !.snap_lims = dust_evo_data'.snap_lims]
        /\ last' = [NoCall EXCEPT !.op = "change_snap_lims",
                                  !.snap_lims = snap_lims,
                                  !.old_lims = dust_evo_data.snap_lims]
    /\ hist' = Unclean(hist)
    /\ UNCHANGED <<file, pc, others>>

\* A call of dust_evo_data.set_halo(load_kwargs, set_kwargs).
DataSetHalo ==
    /\ pc = Idle
    /\ \E kw \in KwargsPairs :
        /\ dust_evo_data' = set_halo(dust_evo_data, kw[1], kw[2])
        /\ last' = [NoCall EXCEPT !.op = "set_halo",
                                  !.kwargs = kw,
                                  !.again = dust_evo_data.setHalo]
        /\ hist' = IF hist.halo_first.set THEN hist
                   ELSE [hist EXCEPT !.halo_first = Cfg(dust_evo_data')]
    /\ UNCHANGED <<evo, file, pc, others>>

\* A call of dust_evo_data.set_disk(load_kwargs, set_kwargs).
DataSetDisk ==
    /\ pc = Idle
    /\ \E kw \in KwargsPairs :
        /\ dust_evo_data' = set_disk(dust_evo_data, kw[1], kw[2])
        /\ last' = [NoCall EXCEPT !.op = "set_disk",
                                  !.kwargs = kw,
                                  !.again = dust_evo_data.setDisk]
        /\ hist' = IF hist.disk_first.set THEN hist
                   ELSE [hist EXCEPT !.disk_first = Cfg(dust_evo_data')]
    /\ UNCHANGED <<evo, file, pc, others>>

\* A call of dust_evo_data.load(increment), meeting fail on disk.
DataLoad ==
    /\ pc = Idle
    /\ \E increment \in Increments, fail \in Fails :
        /\ fail # NoFail => hist.raises < MaxRaises /\ Meets(dust_evo_data, fail)
        /\ LET r == load(dust_evo_data, increment, fail) IN
               /\ dust_evo_data' = r.self
               /\ last' = [NoCall EXCEPT !.op = "load",
                                         !.increment = increment,
                                         !.fail = IF r.raised THEN fail ELSE NoFail,
                                         !.raised = r.raised,
                                         !.reported = r.reported,
                                         !.reads = r.reads,
                                         !.selector = IF r.reads = <<>> THEN NoSelector
                                                      ELSE Selector(dust_evo_data)]
               /\ hist' = HistLoad(hist, increment, r)
    /\ UNCHANGED <<evo, file, pc, others>>

Next ==
    \/ DataChangeSnapLims
    \/ DataSetHalo
    \/ DataSetDisk
    \/ DataLoad

\* The sessions run on a cosmological simulation: redshift is tracked with
\* the other arrays (lines 220-221, 260-261, 319-320).
InitEvo == Init /\ evo.cosmological

Spec == InitEvo /\ [][Next]_vars


(* ------------------------------ Dust_Evo ------------------------------- *)
(* A session of the Dust_Evo interface: the object is constructed, its     *)
(* selector set, load() and save() called. The cache file outlives the     *)
(* object. hist follows only an object driven directly (Spec); it is left  *)
(* alone here.                                                             *)

\* Pickled that loses the loaded flags.
PickledNoFlags(data) ==
    [exists |-> TRUE,
     data |-> [data EXCEPT !.snap_loaded = Falses(Len(data.snap_loaded))]]

\* pickle.dump(self.dust_evo_data, handle), lines 112-113.
Pickled(data) == [exists |-> TRUE, data |-> data]

\* save that writes a newly made object.
save_new(data) == Pickled(NewData(data.snap_lims, data.cosmological))

\* Dust_Evo.save
save(data) == Pickled(data)

\* Dust_Evo.load, lines 89-95: the cached object replaces the one in memory
\* and is widened when its limits are not those of this Dust_Evo.
Restore(self, data, cache) ==
    IF cache.exists
    THEN IF self.snap_lims # cache.data.snap_lims
         THEN change_snap_lims(cache.data, self.snap_lims)
         ELSE cache.data
    ELSE data

\* Dust_Evo.__init__ of a new object for the same directory: the file it
\* looks for, dirc+name (line 55), is not the file save() writes,
\* dirc+name+'.pickle' (line 112), so a new Dust_Evo_Data is made (line 60).
EvoConstruct ==
    /\ pc = Idle
    /\ \E snap_lims \in Lims :
        /\ evo' = NewEvo(snap_lims, evo.cosmological)
        /\ dust_evo_data' = NewData(snap_lims, evo.cosmological)
    /\ last' = [NoCall EXCEPT !.op = "construct"]
    /\ UNCHANGED <<file, pc, hist, others>>

\* The keyword arguments the sessions pass to set_halo and to set_disk.
EvoHaloKwargs == <<"kwA", "kwB">>

EvoDiskKwargs == <<"kwB", "kwA">>

\* Dust_Evo.set_halo(load_kwargs=..., set_kwargs=...)
EvoSetHalo ==
    /\ pc = Idle
    /\ dust_evo_data' = set_halo(dust_evo_data, EvoHaloKwargs[1], EvoHaloKwargs[2])
    /\ last' = [NoCall EXCEPT !.op = "evo_set_halo", !.kwargs = EvoHaloKwargs,
                              !.again = dust_evo_data.setHalo]
    /\ evo' = [evo EXCEPT !.setHalo = TRUE]
    /\ UNCHANGED <<file, pc, hist, others>>

\* Dust_Evo.set_disk(load_kwargs=..., set_kwargs=...)
EvoSetDisk ==
    /\ pc = Idle
    /\ dust_evo_data' = set_disk(dust_evo_data, EvoDiskKwargs[1], EvoDiskKwargs[2])
    /\ last' = [NoCall EXCEPT !.op = "evo_set_disk", !.kwargs = EvoDiskKwargs,
                              !.again = dust_evo_data.setDisk]
    /\ evo' = [evo EXCEPT !.setDisk = TRUE]
    /\ UNCHANGED <<file, pc, hist, others>>

\* Dust_Evo.load(increment), lines 87-95: the call returns at once when k is
\* set; else the cache file, when there is one, is restored and the while
\* loop is entered.
EvoLoadBegin ==
    /\ pc = Idle
    /\ \E increment \in Increments :
        IF evo.k # 0
        THEN /\ last' = [NoCall EXCEPT !.op = "evo_load_return",
                                       !.increment = increment]
             /\ UNCHANGED <<dust_evo_data, pc>>
        ELSE /\ dust_evo_data' = Restore(evo, dust_evo_data, file)
             /\ pc' = [at |-> "loop", increment |-> increment]
             /\ last' = [NoCall EXCEPT !.op = "evo_load_begin",
                                       !.increment = increment,
                                       !.unloaded =
                                           Cardinality(
                                             {i \in 1..((dust_evo_data'.snap_lims[2] + 1)
                                                          - dust_evo_data'.snap_lims[1]) :
                                                 ~dust_evo_data'.snap_loaded[i]}),
                                       !.snap_lims = evo.snap_lims,
                                       !.old_lims = IF file.exists
                                                    THEN file.data.snap_lims
                                                    ELSE dust_evo_data.snap_lims]
    /\ UNCHANGED <<evo, file, hist, others>>

\* Dust_Evo.load, lines 97-99: one turn of the while loop, a batch and the
\* save that follows it. An exception of the batch leaves load() before
\* the save.
EvoLoadBatch ==
    /\ pc.at = "loop"
    /\ ~dust_evo_data.all_snaps_loaded
    /\ \E fail \in Fails :
        /\ fail # NoFail => hist.raises < MaxRaises /\ Meets(dust_evo_data, fail)
        /\ LET r == load(dust_evo_data, pc.increment, fail) IN
               /\ hist' = Raised(hist, r)
               /\ dust_evo_data' = r.self
               /\ file' = IF r.raised THEN file ELSE save(r.self)
               /\ pc' = IF r.raised THEN Idle ELSE pc
               /\ last' = [NoCall EXCEPT !.op = "evo_load_batch",
                                         !.increment = pc.increment,
                                         !.fail = IF r.raised THEN fail ELSE NoFail,
                                         !.raised = r.raised,
                                         !.reported = r.reported,
                                         !.reads = r.reads,
                                         !.selector = IF r.reads = <<>> THEN NoSelector
                                                      ELSE Selector(dust_evo_data),
                                         !.saved = ~r.raised,
                                         !.batches = IF last.batches < BatchCap
                                                     THEN last.batches + 1
                                                     ELSE BatchCap,
                                         !.unloaded = last.unloaded]
    /\ UNCHANGED <<evo, others>>

\* Dust_Evo.load, lines 97 and 101-102: the loop is left, k is set.
EvoLoadEnd ==
    /\ pc.at = "loop"
    /\ dust_evo_data.all_snaps_loaded
    /\ evo' = [evo EXCEPT !.k = 1]
    /\ pc' = Idle
    /\ last' = [NoCall EXCEPT !.op = "evo_load_return",
                              !.increment = pc.increment,
                              !.batches = last.batches,
                              !.unloaded = last.unloaded]
    /\ UNCHANGED <<dust_evo_data, file, hist, others>>

\* A call of Dust_Evo.save().
EvoSave ==
    /\ pc = Idle
    /\ file' = save(dust_evo_data)
    /\ last' = [NoCall EXCEPT !.op = "evo_save", !.saved = TRUE]
    /\ UNCHANGED <<dust_evo_data, evo, pc, hist, others>>

NextEvo ==
    \/ EvoConstruct
    \/ EvoSetHalo
    \/ EvoSetDisk
    \/ EvoLoadBegin
    \/ EvoLoadBatch
    \/ EvoLoadEnd
    \/ EvoSave

SpecEvo == InitEvo /\ [][NextEvo]_vars


(* --------------------- several Dust_Evo objects ------------------------ *)
(* A driver makes Dust_Evo objects for simulation directories, one call    *)
(* after the other (paper_plots.py): the objects share the directory dirc, *)
(* each file in it is named after the object that writes it.               *)

\* The driver keeps at most MaxInst Dust_Evo objects.
MaxInst == 2

InstIds == 1..MaxInst

\* The sdir arguments: main_dir + name + '/output/' of paper_plots.py for two
\* implementations (S, E) and two runs (fid, sne), one without the final '/'.
Sdirs == {"S/fid/output/", "E/fid/output/", "S/sne/output"}

\* The dirc and name_prefix arguments, the same for every object.
CacheDirc == "d/"

CachePrefix == ""

\* The limits and the cosmological flag the driver passes to every object.
CacheLims == <<0, 1>>

CacheCosmological == FALSE

\* path[i] of a Python string.
Char(path, i) == SubSeq(path, i, i)

\* path.split('/'): the components from position i on, cur the one being read.
RECURSIVE Components(_, _, _)
Components(path, i, cur) ==
    IF i > Len(path) THEN <<cur>>
    ELSE IF Char(path, i) = "/" THEN <<cur>> \o Components(path, i + 1, "")
    ELSE Components(path, i + 1, cur \o Char(path, i))

\* posixpath.normpath, the loop over the components: empty and '.' ones are
\* dropped, '..' takes the component before it away.
RECURSIVE NewComps(_, _, _, _)
NewComps(comps, i, initial_slashes, new_comps) ==
    IF i > Len(comps) THEN new_comps
    ELSE LET comp == comps[i] IN
         IF comp \in {"", "."}
         THEN NewComps(comps, i + 1, initial_slashes, new_comps)
         ELSE IF \/ comp # ".."
                 \/ (initial_slashes = 0 /\ new_comps = <<>>)
                 \/ (new_comps # <<>> /\ new_comps[Len(new_comps)] = "..")
         THEN NewComps(comps, i + 1, initial_slashes, Append(new_comps, comp))
         ELSE IF new_comps # <<>>
         THEN NewComps(comps, i + 1, initial_slashes,
                       SubSeq(new_comps, 1, Len(new_comps) - 1))
         ELSE NewComps(comps, i + 1, initial_slashes, new_comps)

\* '/'.join(comps)
RECURSIVE Join(_)
Join(comps) ==
    IF comps = <<>> THEN ""
    ELSE IF Len(comps) = 1 THEN comps[1]
    ELSE comps[1] \o "/" \o Join(Tail(comps))

\* path.startswith(prefix)
StartsWith(path, prefix) ==
    Len(path) >= Len(prefix) /\ SubSeq(path, 1, Len(prefix)) = prefix

\* os.path.normpath (posixpath)
normpath(path) ==
    IF path = "" THEN "."
    ELSE LET initial_slashes ==
                 IF ~StartsWith(path, "/") THEN 0
                 ELSE IF StartsWith(path, "//") /\ ~StartsWith(path, "///") THEN 2
                 ELSE 1
             joined == Join(NewComps(Components(path, 1, ""), 1, initial_slashes, <<>>))
             whole == (IF initial_slashes = 2 THEN "//"
                       ELSE IF initial_slashes = 1 THEN "/" ELSE "") \o joined
         IN IF whole = "" THEN "." ELSE whole

\* path.rfind('/') + 1: the position of the last '/', 0 when there is none.
RFind(path) ==
    LET at == {i \in 1..Len(path) : Char(path, i) = "/"}
    IN IF at = {} THEN 0 ELSE CHOOSE i \in at : \A j \in at : j <= i

\* head.rstrip('/')
RECURSIVE RStrip(_)
RStrip(head) ==
    IF head # "" /\ Char(head, Len(head)) = "/"
    THEN RStrip(SubSeq(head, 1, Len(head) - 1))
    ELSE head

\* os.path.dirname (posixpath)
dirname(path) ==
    LET head == SubSeq(path, 1, RFind(path))
    IN IF head # "" /\ (\E i \in 1..Len(head) : Char(head, i) # "/")
       THEN RStrip(head)
       ELSE head

\* os.path.basename (posixpath)
basename(path) == SubSeq(path, RFind(path) + 1, Len(path))

\* Dust_Evo.__init__, lines 50 and 52: the name of the object.
Name(name_prefix, sdir) ==
    "dust_evo_" \o name_prefix \o "_" \o basename(dirname(normpath(sdir))) \o "_snaps"

\* Dust_Evo.__init__, line 55: the file the constructor looks for.
InitPath(dirc, name) == dirc \o name

\* Dust_Evo.save, line 112, and Dust_Evo.load, line 90: the file save()
\* writes and load() restores.
SavePath(dirc, name) == dirc \o name \o ".pickle"

\* os.path.isfile(path), for the files of dirc.
isfile(files, path) == path \in DOMAIN files

\* open(path, 'wb') and pickle.dump(data, handle): files with path written.
Write(files, path, data) ==
    [q \in DOMAIN files \cup {path} |-> IF q = path THEN data ELSE files[q]]

\* Dust_Evo_Data.__init__ with line 214: the object remembers its sdir,
\* the directory load() reads its snapshots from (line 317).
NewDataOf(sdir, snap_lims, cosmological) ==
    LET data == NewData(snap_lims, cosmological)
    IN [f \in DOMAIN data \cup {"sdir"} |-> IF f = "sdir" THEN sdir ELSE data[f]]

\* Dust_Evo.__init__
NewDustEvo(sdir, snap_lims, cosmological, dirc, name_prefix, files) ==
    LET name == Name(name_prefix, sdir) IN
    [sdir |-> sdir,
     snap_lims |-> snap_lims,
     cosmological |-> cosmological,
     dirc |-> dirc,
     name |-> name,
     setHalo |-> FALSE,
     setDisk |-> FALSE,
     dust_evo_data |-> IF isfile(files, InitPath(dirc, name))
                       THEN files[InitPath(dirc, name)].data
                       ELSE NewDataOf(sdir, snap_lims, cosmological),
     k |-> 0]

\* Dust_Evo.load, lines 97-99: the while loop, a batch and a save per turn,
\* every snapshot readable.
RECURSIVE LoadBatches(_, _, _, _)
LoadBatches(data, increment, path, files) ==
    IF data.all_snaps_loaded
    THEN [data |-> data, files |-> files]
    ELSE LET r == load(data, increment, NoFail)
         IN LoadBatches(r.self, increment, path, Write(files, path, save(r.self)))

\* Dust_Evo.load, lines 89-95: the object load() works on.
Restored(self, files) ==
    LET path == SavePath(self.dirc, self.name)
    IN Restore(self, self.dust_evo_data,
               IF isfile(files, path) THEN files[path] ELSE NoFile)

\* Dust_Evo.load: the object and the files of dirc when the call returns.
Dust_Evo_load(self, increment, files) ==
    IF self.k # 0
    THEN [self |-> self, files |-> files]
    ELSE LET r == LoadBatches(Restored(self, files), increment,
                              SavePath(self.dirc, self.name), files)
         IN [self |-> [self EXCEPT !.dust_evo_data = r.data, !.k = 1],
             files |-> r.files]

\* The Dust_Evo variables of the sessions of one object, left alone here.
one_object == <<dust_evo_data, evo, file, hist>>

\* The keyword parameters of Dust_Evo.__init__, lines 12-13.
InitKeywords ==
    {"cosmological", "periodic_bound_fix", "totals", "medians",
     "median_subsamples", "star_totals", "dirc", "name_prefix"}

\* The keywords of a constructor call: those of paper_plots.py (lines 78,
\* 108, 137, 165), and those of a call that leaves out the two the
\* constructor does not take.
ConstructCalls ==
    {{"cosmological", "periodic_bound_fix", "dust_depl", "statistic", "dirc"},
     {"cosmological", "periodic_bound_fix", "dirc"}}

\* The keyword parameters of Dust_Evo_Data.set_disk, line 287, which
\* Dust_Evo.set_disk hands its keywords to (line 79).
SetDiskKeywords == {"load_kwargs", "set_kwargs"}

\* The keywords of a set_disk call: those of paper_plots.py (lines 79 and
\* 138), and the two that set_disk takes.
SetDiskCalls ==
    {{"id", "mode", "hdir", "rmax", "height"},
     {"id", "hdir", "rmax", "height"},
     {"load_kwargs", "set_kwargs"}}

\* Python raises TypeError (unexpected keyword argument) when a call passes
\* a keyword that is not a parameter of the function.
TypeError(keywords, parameters) == ~(keywords \subseteq parameters)

\* dust_avg = Dust_Evo(sdir, snap_lims, ..., dirc=dirc) with the keywords:
\* with an unexpected keyword no object is made; else object i is made, in
\* the place of the one the driver held there.
CacheConstruct ==
    /\ pc = Idle
    /\ \E i \in InstIds, sdir \in Sdirs, keywords \in ConstructCalls :
        IF TypeError(keywords, InitKeywords)
        THEN /\ last' = [NoCall EXCEPT !.op = "cache_construct", !.inst = i,
                                       !.raised = TRUE, !.reported = "TypeError"]
             /\ UNCHANGED instances
        ELSE /\ instances' =
                   [j \in DOMAIN instances \cup {i} |->
                       IF j = i
                       THEN NewDustEvo(sdir, CacheLims, CacheCosmological,
                                       CacheDirc, CachePrefix, dirc_files)
                       ELSE instances[j]]
             /\ last' = [NoCall EXCEPT !.op = "cache_construct", !.inst = i]
    /\ UNCHANGED <<dirc_files, pc, plotting, one_object>>

\* dust_avg.set_disk(...) with the keywords: Dust_Evo_Data.set_disk raises
\* on an unexpected keyword, before line 80 sets setDisk of the Dust_Evo.
CacheSetDisk ==
    /\ pc = Idle
    /\ \E i \in DOMAIN instances, keywords \in SetDiskCalls :
        IF TypeError(keywords, SetDiskKeywords)
        THEN /\ last' = [NoCall EXCEPT !.op = "cache_set_disk", !.inst = i,
                                       !.raised = TRUE, !.reported = "TypeError"]
             /\ UNCHANGED instances
        ELSE /\ instances' =
                   [instances EXCEPT
                      ![i].dust_evo_data = set_disk(@, EvoDiskKwargs[1], EvoDiskKwargs[2]),
                      ![i].setDisk = TRUE]
             /\ last' = [NoCall EXCEPT !.op = "cache_set_disk", !.inst = i]
    /\ UNCHANGED <<dirc_files, pc, plotting, one_object>>

\* Dust_Evo.load, line 97: whether the while loop of a call on self ends.
\* An object without selector is never marked as loaded by load().
LoopEnds(self, files) ==
    \/ self.k # 0
    \/ Restored(self, files).all_snaps_loaded
    \/ Restored(self, files).setHalo
    \/ Restored(self, files).setDisk

\* dust_avg.load(increment). When the loop ends the call returns. When it
\* does not, the object restored at line 92 has replaced the one in memory,
\* every turn prints the configuration message and saves that object (line
\* 99), and the driver stays in the call.
CacheLoad ==
    /\ pc = Idle
    /\ \E i \in DOMAIN instances, increment \in Increments :
        IF LoopEnds(instances[i], dirc_files)
        THEN /\ LET r == Dust_Evo_load(instances[i], increment, dirc_files) IN
                   /\ instances' = [instances EXCEPT ![i] = r.self]
                   /\ dirc_files' = r.files
             /\ last' = [NoCall EXCEPT !.op = "cache_load", !.inst = i,
                                       !.increment = increment]
             /\ pc' = pc
        ELSE /\ LET data == Restored(instances[i], dirc_files) IN
                   /\ instances' = [instances EXCEPT ![i].dust_evo_data = data]
                   /\ dirc_files' = Write(dirc_files,
                                          SavePath(instances[i].dirc, instances[i].name),
                                          save(data))
             /\ last' = [NoCall EXCEPT !.op = "cache_load", !.inst = i,
                                       !.increment = increment,
                                       !.reported = "config", !.saved = TRUE]
             /\ pc' = [at |-> "loop", increment |-> increment]
    /\ UNCHANGED <<plotting, one_object>>

\* dust_avg.save()
CacheSave ==
    /\ pc = Idle
    /\ \E i \in DOMAIN instances :
        /\ dirc_files' = Write(dirc_files,
                               SavePath(instances[i].dirc, instances[i].name),
                               save(instances[i].dust_evo_data))
        /\ last' = [NoCall EXCEPT !.op = "cache_save", !.inst = i, !.saved = TRUE]
    /\ UNCHANGED <<instances, pc, plotting, one_object>>

NextCache ==
    \/ CacheConstruct
    \/ CacheSetDisk
    \/ CacheLoad
    \/ CacheSave

\* The driver has made no object yet, dirc is empty.
InitCache ==
    /\ dust_evo_data = NewData(CacheLims, CacheCosmological)
    /\ evo = NewEvo(CacheLims, CacheCosmological)
    /\ file = NoFile
    /\ pc = Idle
    /\ last = NoCall
    /\ hist = NewHist
    /\ instances = NoInstances
    /\ dirc_files = NoFiles
    /\ PlottingIdle

SpecCache == InitCache /\ [][NextCache]_vars


(* ------------------------------ get_data ------------------------------- *)
(* The stored values are whole numbers here; the element-wise division of  *)
(* two stored arrays gives floats: a quotient, nan (0/0) or inf (x/0).     *)

NaN == [kind |-> "nan", num |-> 0, den |-> 0]

Inf == [kind |-> "inf", num |-> 0, den |-> 0]

FloatZero == [kind |-> "finite", num |-> 0, den |-> 1]

\* a / b of two numpy floats: a zero divisor gives a warning and nan or inf,
\* no exception.
Quotient(a, b) ==
    IF b = 0 THEN (IF a = 0 THEN NaN ELSE Inf)
    ELSE IF a = 0 THEN FloatZero
    ELSE [kind |-> "finite", num |-> a, den |-> b]

\* numerator / denominator of two arrays, a new array.
Divide(numerator, denominator) ==
    [i \in 1..Len(numerator) |-> Quotient(numerator[i], denominator[i])]

\* data[np.isnan(data)] = 0, lines 154 and 185.
ZeroNaN(data) ==
    [i \in 1..Len(data) |-> IF data[i].kind = "nan" THEN FloatZero ELSE data[i]]

\* sub in data_name, of two Python strings.
Contains(data_name, sub) ==
    \E i \in 1..((Len(data_name) - Len(sub)) + 1) :
        SubSeq(data_name, i, (i + Len(sub)) - 1) = sub

\* The if/elif chain of lines 143-150 and 156-163: the tag looked for in
\* data_name, the total divided by M_dust, the median returned.
SourceChain ==
    << <<"source_acc", "M_acc_dust", "dz_acc">>,
       <<"source_SNeIa", "M_SNeIa_dust", "dz_SNeIa">>,
       <<"source_SNeII", "M_SNeII_dust", "dz_SNeII">>,
       <<"source_AGB", "M_AGB_dust", "dz_AGB">> >>

\* The if/elif chain of lines 172-181 and 187-196.
SpecChain ==
    << <<"spec_sil", "M_sil", "dz_sil">>,
       <<"spec_carb", "M_carb", "dz_carb">>,
       <<"spec_SiC", "M_SiC", "dz_SiC">>,
       <<"spec_iron", "M_iron", "dz_iron">>,
       <<"spec_ORes", "M_ORes", "dz_ORes">> >>

\* The test of one link of a chain (lines 178 and 193 for spec_iron).
Matches(data_name, tag) ==
    /\ Contains(data_name, tag)
    /\ (tag = "spec_iron" => ~Contains(data_name, "spec_ironIncl"))

\* The first link of the chain that data_name passes, 0 when none does.
FirstMatch(chain, data_name) ==
    LET at == {i \in 1..Len(chain) : Matches(data_name, chain[i][1])}
    IN IF at = {} THEN 0 ELSE CHOOSE i \in at : \A j \in at : i <= j

\* The returned array shares its memory with no stored array.
NoArray == <<>>

\* The local variable data of get_data: an array, and the stored array it
\* is (NoArray for a new array).
Data(series, shares, derived, warned) ==
    [NoGot EXCEPT !.returned = TRUE, !.series = series, !.shares = shares,
                  !.derived = derived, !.warned = warned]

\* print(data_name, " is not in the dataset."); return None
NotInDataset(warned) ==
    [NoGot EXCEPT !.warned = warned, !.printed = "not in the dataset"]

\* A dictionary lookup with a key the dictionary does not hold.
KeyError(warned) == [NoGot EXCEPT !.warned = warned, !.raised = "KeyError"]

\* copy that gives the array itself.
copy_none(data) == data

\* data.copy(), line 207.
copy(data) == [data EXCEPT !.shares = NoArray]

\* get_data, lines 141-169 (chain = SourceChain) and 170-202 (SpecChain).
Derived(self, chain, data_name, subsample, statistic, warned) ==
    LET at == FirstMatch(chain, data_name) IN
    IF statistic = "total"
    THEN IF at = 0 THEN NotInDataset(warned)
         ELSE IF chain[at][2] \in DOMAIN self.total_data
                 /\ "M_dust" \in DOMAIN self.total_data
         THEN copy(Data(ZeroNaN(Divide(self.total_data[chain[at][2]],
                                       self.total_data["M_dust"])),
                        NoArray, TRUE, warned))
         ELSE KeyError(warned)
    ELSE IF statistic = "median"
    THEN IF at = 0 THEN NotInDataset(warned)
         ELSE IF subsample \in DOMAIN self.median_data
                 /\ chain[at][3] \in DOMAIN self.median_data[subsample]
         THEN copy(Data(self.median_data[subsample][chain[at][3]],
                        <<"median", subsample, chain[at][3]>>, FALSE, warned))
         ELSE KeyError(warned)
    ELSE NotInDataset(warned)

\* Dust_Evo.get_data, self.dust_evo_data being self here; it assigns to no
\* field and to no stored array (lines 154 and 185 write into the new array
\* of the division).
get_data(self, data_name, subsample, statistic) ==
    IF statistic \notin {"total", "median"}
    THEN [NoGot EXCEPT !.printed = "statistic"]
    ELSE LET warned == ~self.all_snaps_loaded IN
         IF data_name \in totals
         THEN copy(Data(self.total_data[data_name], <<"total", data_name>>,
                        FALSE, warned))
         ELSE IF data_name \in medians
         THEN IF subsample \in median_subsamples
              THEN copy(Data(self.median_data[subsample][data_name],
                             <<"median", subsample, data_name>>, FALSE, warned))
              ELSE [NoGot EXCEPT !.warned = warned, !.printed = "subsample"]
         ELSE IF data_name \in star_totals
         THEN copy(Data(self.star_total_data[data_name], <<"star", data_name>>,
                        FALSE, warned))
         ELSE IF data_name = "time"
         THEN copy(Data(self.time, <<"time">>, FALSE, warned))
         ELSE IF data_name = "redshift" /\ self.cosmological
         THEN copy(Data(self.redshift, <<"redshift">>, FALSE, warned))
         ELSE IF Contains(data_name, "source")
         THEN Derived(self, SourceChain, data_name, subsample, statistic, warned)
         ELSE IF Contains(data_name, "spec")
         THEN Derived(self, SpecChain, data_name, subsample, statistic, warned)
         ELSE NotInDataset(warned)

\* The (data_name, subsample, statistic) the callers of the model pass:
\* stored and derived names, names and a subsample no Dust_Evo knows, and
\* the statistic 'average' of paper_plots.py.
GetArgs ==
    {<<"M_dust", "all", "total">>, <<"M_dust", "all", "average">>,
     <<"D/Z", "cold", "median">>, <<"D/Z", "warm", "median">>,
     <<"M_star", "all", "median">>, <<"time", "all", "median">>,
     <<"redshift", "all", "median">>,
     <<"source_acc", "all", "total">>, <<"source_acc", "cold", "median">>,
     <<"source_acc", "warm", "median">>, <<"source_frac", "all", "total">>,
     <<"spec_frac", "all", "median">>, <<"bogus", "all", "median">>}

\* Element i of the stored array a set to v.
SetArr(self, a, i, v) ==
    IF a[1] = "time" THEN [self EXCEPT !.time[i] = v]
    ELSE IF a[1] = "redshift" THEN [self EXCEPT !.redshift[i] = v]
    ELSE IF a[1] = "total" THEN [self EXCEPT !.total_data[a[2]][i] = v]
    ELSE IF a[1] = "star" THEN [self EXCEPT !.star_total_data[a[2]][i] = v]
    ELSE [self EXCEPT !.median_data[a[2]][a[3]][i] = v]

\* A call of Dust_Evo.get_data(data_name, subsample, statistic).
EvoGetData ==
    /\ pc = Idle
    /\ \E args \in GetArgs :
        last' = [NoCall EXCEPT
                   !.op = "get_data",
                   !.args = args,
                   !.got = get_data(dust_evo_data, args[1], args[2], args[3])]
    /\ UNCHANGED <<dust_evo_data, evo, file, pc, hist, others>>

\* The caller assigns to element i of the array get_data returned: an array
\* that shares its memory with a stored array changes that one too.
CallerWrites ==
    /\ last.op = "get_data"
    /\ last.got.returned
    /\ \E i \in 1..Len(last.got.series) :
        LET v == IF last.got.derived
                 THEN (IF last.got.series[i] = Inf THEN FloatZero ELSE Inf)
                 ELSE last.got.series[i] + 1
        IN /\ last' = [last EXCEPT !.op = "caller_write",
                                   !.wrote = i,
                                   !.got.series[i] = v]
           /\ dust_evo_data' = IF last.got.shares = NoArray
                               THEN dust_evo_data
                               ELSE SetArr(dust_evo_data, last.got.shares, i, v)
    /\ UNCHANGED <<evo, file, pc, hist, others>>

NextGet ==
    \/ EvoConstruct
    \/ EvoSetHalo
    \/ EvoLoadBegin
    \/ EvoLoadBatch
    \/ EvoLoadEnd
    \/ EvoGetData
    \/ CallerWrites

SpecGet == Init /\ [][NextGet]_vars


(* ------------------------- weighted_percentile ------------------------- *)
(* dust_plots.py, lines 40-76. The values and weights are whole numbers   *)
(* here; what the function computes from them are fractions, kept exact   *)
(* and in lowest terms with the float record of get_data: a 50 that the   *)
(* floats of the source meet exactly (half of the weight) is met exactly. *)

\* len(a) is in 0..MaxLen, the values in 1..MaxVal, the weights in
\* 0..MaxWeight.
MaxLen == 4

MaxVal == 4

MaxWeight == 2

\* weights=None of the source: a value that no array of weights is.
None == <<0 - 1>>

Abs(x) == IF x < 0 THEN 0 - x ELSE x

RECURSIVE GCD(_, _)
GCD(a, b) == IF b = 0 THEN a ELSE GCD(b, a % b)

\* The float num / den, den not zero.
Frac(num, den) ==
    LET g == GCD(Abs(num), Abs(den))
        sign == IF den < 0 THEN 0 - 1 ELSE 1
    IN [kind |-> "finite", num |-> (sign * num) \div g, den |-> (sign * den) \div g]

FracAdd(x, y) == Frac(x.num * y.den + y.num * x.den, x.den * y.den)

FracSub(x, y) == Frac(x.num * y.den - y.num * x.den, x.den * y.den)

FracMul(x, y) == Frac(x.num * y.num, x.den * y.den)

FracDiv(x, y) == Frac(x.num * y.den, x.den * y.num)

FracLess(x, y) == x.num * y.den < y.num * x.den

\* np.ones(a.size)
Ones(n) == [i \in 1..n |-> 1]

\* np.full(n, np.nan)
FullNaN(n) == [i \in 1..n |-> NaN]

\* np.argsort(a), line 68: the positions of a in ascending order of their
\* values. The default kind of sort does not keep the order of equal
\* values, so the call can return every ordering in which the values
\* ascend; argsort is the set of them.
argsort(a) ==
    {idx \in [1..Len(a) -> 1..Len(a)] :
        /\ \A r, q \in 1..Len(a) : r # q => idx[r] # idx[q]
        /\ \A r \in 1..(Len(a) - 1) : a[idx[r]] <= a[idx[r + 1]]}

\* a[idx]
Take(a, idx) == [r \in 1..Len(idx) |-> a[idx[r]]]

\* w.cumsum()
RECURSIVE cumsum(_)
cumsum(w) ==
    IF w = <<>> THEN <<>>
    ELSE LET head == cumsum(SubSeq(w, 1, Len(w) - 1))
         IN Append(head, (IF head = <<>> THEN 0 ELSE head[Len(head)]) + w[Len(w)])

\* w.sum()
sum(w) == IF w = <<>> THEN 0 ELSE cumsum(w)[Len(w)]

\* line 73: p = 1.*w_sort.cumsum()/w_sort.sum()*100
PercentOf(w_sort) ==
    [i \in 1..Len(w_sort) |-> Frac(100 * cumsum(w_sort)[i], sum(w_sort))]

\* np.interp(x, xp, fp) for one x and a non-decreasing xp: fp[0] left of
\* xp, fp[-1] right of it; else, with j the last position whose xp is not
\* above x, fp[j] when xp[j] is x or j is the last position, and the point
\* of the line from (xp[j], fp[j]) to (xp[j+1], fp[j+1]) otherwise.
interp1(x, xp, fp) ==
    LET n == Len(xp)
        fx == Frac(x, 1)
    IN IF FracLess(xp[n], fx) THEN Frac(fp[n], 1)
       ELSE IF FracLess(fx, xp[1]) THEN Frac(fp[1], 1)
       ELSE LET j == CHOOSE k \in 1..n :
                        /\ \A i \in 1..k : ~FracLess(fx, xp[i])
                        /\ (k < n => FracLess(fx, xp[k + 1]))
            IN IF j = n \/ xp[j] = fx THEN Frac(fp[j], 1)
               ELSE LET slope == FracDiv(Frac(fp[j + 1] - fp[j], 1),
                                         FracSub(xp[j + 1], xp[j]))
                    IN FracAdd(FracMul(slope, FracSub(fx, xp[j])), Frac(fp[j], 1))

\* np.interp(percentiles, p, a_sort)
interp(percentiles, xp, fp) ==
    [k \in 1..Len(percentiles) |-> interp1(percentiles[k], xp, fp)]

\* weighted_percentile(a, percentiles, weights): the values the call can
\* return, one for each ordering np.argsort can give.
weighted_percentile(a, percentiles, weights) ==
    IF Len(a) = 0
    THEN {FullNaN(Len(percentiles))}
    ELSE LET w == IF weights = None THEN Ones(Len(a)) ELSE weights
         IN {LET a_sort == Take(a, idx)
                 w_sort == Take(w, idx)
                 p == PercentOf(w_sort)
             IN interp(percentiles, p, a_sort) : idx \in argsort(a)}

\* The arrays a caller passes as a, by length.
Arrays(n) == [1..n -> 1..MaxVal]

\* The weights passed with an array of length n: None, or one weight per
\* value, not all of them zero (the sum of the weights divides).
WeightsFor(n) ==
    {None} \cup {w \in [1..n -> 0..MaxWeight] : \E i \in 1..n : w[i] > 0}

\* The percentiles argument: the median alone (time_evolution.py line 363),
\* or the default.
PercentileArgs == {<<50>>, <<50, 16, 84>>}

\* The Dust_Evo variables, left alone by the plotting helpers.
dust_evo == <<dust_evo_data, evo, file, pc, last, hist, instances, dirc_files>>

\* The caller holds the arguments of a weighted_percentile call.
InitPercentile ==
    /\ dust_evo_data = NewData(CacheLims, CacheCosmological)
    /\ evo = NewEvo(CacheLims, CacheCosmological)
    /\ file = NoFile
    /\ pc = Idle
    /\ last = NoCall
    /\ hist = NewHist
    /\ instances = NoInstances
    /\ dirc_files = NoFiles
    /\ compiled = NoCompiled
    /\ figure = NoFigure
    /\ \E n \in 0..MaxLen :
          \E a \in Arrays(n), weights \in WeightsFor(n), percentiles \in PercentileArgs :
             percentile = [called |-> FALSE, a |-> a, weights |-> weights,
                           percentiles |-> percentiles, values |-> <<>>]

\* The call weighted_percentile(a, percentiles, weights).
CallWeightedPercentile ==
    /\ ~percentile.called
    /\ \E values \in weighted_percentile(percentile.a, percentile.percentiles,
                                          percentile.weights) :
          percentile' = [percentile EXCEPT !.called = TRUE, !.values = values]
    /\ UNCHANGED <<dust_evo, compiled, figure>>

NextPercentile == CallWeightedPercentile

SpecPercentile == InitPercentile /\ [][NextPercentile]_vars


(* -------------------------- compile_dust_data -------------------------- *)
(* dust_plots.py, lines 1104-1321: the loop over the snapshots of          *)
(* [startnum, endnum] and the mask it applies to each. The statistics of   *)
(* a row of the output are those of the particles the mask of the row      *)
(* keeps; a row is followed by its snapshot number and its mask radius.    *)
(* implementation is 'species' (the first snapshot is read before the      *)
(* loop), Lz_hat is None.                                                  *)

\* startnum and endnum are in 0..MaxNum.
MaxNum == 2

\* r_max = None of the source, and the radius of a row made without a mask.
NoRadius == [kind |-> "none", num |-> 0, den |-> 0]

\* The AHF halo file read at halo_dir has a row for each of the snapshots
\* 1..MaxNum + 1; halo_data['col13'][k] with the indexing of Python, where
\* -1 is the last row.
HaloRvir(k) ==
    LET rows == MaxNum + 1
        row == IF k < 0 THEN rows + k ELSE k
    IN 100 + 10 * row

\* H['time'] of the header of snapshot num, the scale factor.
HeaderTime(num) == Frac(num + 1, MaxNum + 2)

\* H['hubble']
HeaderHubble == Frac(7, 10)

\* lines 1168-1172: rvir = halo_data['col13'][num-1]*H['time']/H['hubble']
Rvir(num) ==
    FracDiv(FracMul(Frac(HaloRvir(num - 1), 1), HeaderTime(num)), HeaderHubble)

\* The arguments of a call: [startnum, endnum], mask, cosmological, r_max
\* (None or a radius in kpc), Rvir_frac, overwrite; whether the output file
\* exists, and the snapshot of the range that is not in snap_dir, -1 when all
\* of them are.
CompileArgs ==
    [startnum : 0..MaxNum, endnum : 0..MaxNum, mask : BOOLEAN,
     cosmological : BOOLEAN, r_max : {NoRadius, Frac(50, 1)}, Rvir_frac : {1, 2},
     overwrite : BOOLEAN, exists : BOOLEAN, missing : (0 - 1)..MaxNum]

\* lines 1179-1183: the local r_max after the test; it is assigned when it
\* is None and kept otherwise.
MaskRadius(r_max, rvir, Rvir_frac) ==
    IF r_max = NoRadius THEN FracMul(rvir, Frac(Rvir_frac, 1)) ELSE r_max

\* A caller holds the arguments of a compile_dust_data call.
InitCompile ==
    /\ dust_evo_data = NewData(CacheLims, CacheCosmological)
    /\ evo = NewEvo(CacheLims, CacheCosmological)
    /\ file = NoFile
    /\ pc = Idle
    /\ last = NoCall
    /\ hist = NewHist
    /\ instances = NoInstances
    /\ dirc_files = NoFiles
    /\ percentile = NoPercentile
    /\ figure = NoFigure
    /\ \E args \in CompileArgs :
          /\ args.startnum <= args.endnum
          /\ compiled = [at |-> "call", args |-> args, num |-> args.startnum,
                         r_max |-> args.r_max, rows |-> <<>>, written |-> FALSE]

\* compile_dust_data, lines 1121-1145: nothing is done when the output file
\* exists and overwrite is not set; else the first snapshot is read, and the
\* call returns when it is not found.
CompileCall ==
    /\ compiled.at = "call"
    /\ compiled' =
          [compiled EXCEPT
             !.at = IF compiled.args.exists /\ ~compiled.args.overwrite THEN "done"
                    ELSE IF compiled.args.missing = compiled.args.startnum
                    THEN "returned"
                    ELSE "loop"]
    /\ UNCHANGED <<dust_evo, percentile, figure>>

\* compile_dust_data, lines 1152-1312: one turn of the loop, snapshot num.
CompileSnapshot ==
    /\ compiled.at = "loop"
    /\ compiled.num <= compiled.args.endnum
    /\ LET num == compiled.num
           args == compiled.args
       IN IF args.missing = num
          THEN compiled' = [compiled EXCEPT !.at = "returned"]
          ELSE IF ~args.mask
          THEN compiled' =
                  [compiled EXCEPT
                     !.num = num + 1,
                     !.rows = Append(@, [num |-> num, r_max |-> NoRadius])]
          ELSE IF args.cosmological
          THEN LET r_max == MaskRadius(compiled.r_max, Rvir(num), args.Rvir_frac)
               IN compiled' =
                     [compiled EXCEPT
                        !.num = num + 1,
                        !.r_max = r_max,
                        !.rows = Append(@, [num |-> num, r_max |-> r_max])]
          ELSE IF compiled.r_max = NoRadius
          THEN compiled' = [compiled EXCEPT !.at = "returned"]
          ELSE compiled' =
                  [compiled EXCEPT
                     !.num = num + 1,
                     !.rows = Append(@, [num |-> num, r_max |-> compiled.r_max])]
    /\ UNCHANGED <<dust_evo, percentile, figure>>

\* compile_dust_data, lines 1314-1321: the loop is over, the file is written.
CompileWrite ==
    /\ compiled.at = "loop"
    /\ compiled.num > compiled.args.endnum
    /\ compiled' = [compiled EXCEPT !.at = "done", !.written = TRUE]
    /\ UNCHANGED <<dust_evo, percentile, figure>>

NextCompile ==
    \/ CompileCall
    \/ CompileSnapshot
    \/ CompileWrite

SpecCompile == InitCompile /\ [][NextCompile]_vars


(* ------------------------------- Figure -------------------------------- *)
(* crc_scripts/figure.py: the Figure keeps, for each of its axes, the      *)
(* artists its plot calls put on the axis. An artist is followed by the    *)
(* order in which it was made. An entry of axis_artists is a list or, when *)
(* an artist itself was appended to axis_artists, that artist; an element  *)
(* of such a list is an artist or, after plot_polygon, a list of one.      *)

\* A Figure has 1..MaxPlots axes; the calls make at most MaxArtists artists.
MaxPlots == 2

MaxArtists == 3

\* An element of a list of artists: the artist, or (in_list) a list that
\* holds the artist alone, which is what axis.fill returns for one polygon.
Item(artist, in_list) == [artist |-> artist, in_list |-> in_list]

\* A Python list, as an entry of axis_artists.
List(items) == [list |-> TRUE, items |-> items]

\* An artist, as an entry of axis_artists.
Artist(artist) == [list |-> FALSE, items |-> <<Item(artist, FALSE)>>]

\* No call was made on the Figure yet.
NoFigureCall == [op |-> "init", axis_num |-> 0, artists |-> <<>>, raised |-> FALSE]

\* Figure.__init__, lines 26-33; axes holds what is drawn on each axis,
\* methods the names of the methods called so far.
NewFigure(plot_num) ==
    [made |-> TRUE,
     plot_num |-> plot_num,
     axis_artists |-> [i \in 1..plot_num |-> List(<<>>)],
     axes |-> [i \in 1..plot_num |-> {}],
     artists |-> 0,
     methods |-> {},
     call |-> NoFigureCall]

\* The artists n + 1 .. n + k, made by a call when n were made before.
NewArtists(n, k) == [j \in 1..k |-> n + j]

\* The elements of a sequence, as a set.
Range(seq) == {seq[j] : j \in 1..Len(seq)}

\* self.axis_artists[axis_num] += items, lines 119, 151, 166, 181, 200 and
\* 216; axis axis_num of the source is position axis_num + 1 here.
Record(self, axis_num, items) ==
    [self EXCEPT
       !.axis_artists[axis_num + 1] = List(self.axis_artists[axis_num + 1].items \o items)]

\* axis.plot, axis.scatter, axis.errorbar, axis.fill_between, axis.fill,
\* axis.pcolormesh and axis.add_artist: the artists are drawn on the axis.
Draw(self, axis_num, artists) ==
    [self EXCEPT !.axes[axis_num + 1] = @ \cup Range(artists),
                 !.artists = @ + Len(artists)]

\* plot_scatter_data, plot_errorbar_data, plot_shaded_region,
\* plot_histogram without label, and plot_line_data without y_std: one
\* artist is drawn and recorded.
plot_data(self, axis_num) ==
    LET artists == NewArtists(self.artists, 1)
    IN Record(Draw(self, axis_num, artists), axis_num,
              <<Item(artists[1], FALSE)>>)

\* plot_line_data with y_std, lines 103-130: the line, then the shaded
\* region of plot_shaded_region.
plot_line_data_std(self, axis_num) == plot_data(plot_data(self, axis_num), axis_num)

\* plot_polygon, lines 169-182: axis.fill returns the list of the polygons
\* it made, one here, and line 181 appends that list as one element.
plot_polygon(self, axis_num) ==
    LET artists == NewArtists(self.artists, 1)
    IN Record(Draw(self, axis_num, artists), axis_num,
              <<Item(artists[1], TRUE)>>)

\* clear_axis, lines 98-99, from element j of the entry on: artist.remove()
\* takes a drawn artist off its axis. It raises for a list (list.remove()
\* takes exactly one argument) and for an artist that is drawn no more, and
\* the exception leaves the loop.
RECURSIVE Remove(_, _, _)
Remove(self, items, j) ==
    IF j > Len(items) THEN [self |-> self, raised |-> FALSE]
    ELSE IF \/ items[j].in_list
            \/ \A i \in DOMAIN self.axes : items[j].artist \notin self.axes[i]
    THEN [self |-> self, raised |-> TRUE]
    ELSE Remove([self EXCEPT
                    !.axes = [i \in DOMAIN self.axes |->
                                 self.axes[i] \ {items[j].artist}]],
                items, j + 1)

\* clear_axis, lines 96-100: every artist of the entry is removed from what
\* is drawn, then the entry is a new empty list; an exception of the loop
\* leaves the entry as it was. The result holds the Figure and whether an
\* exception left the call.
clear_axis(self, axis_num) ==
    LET items == self.axis_artists[axis_num + 1].items
        r == Remove(self, items, 1)
    IN IF Len(items) > 0 /\ ~r.raised
       THEN [self |-> [r.self EXCEPT !.axis_artists[axis_num + 1] = List(<<>>)],
             raised |-> FALSE]
       ELSE IF Len(items) > 0 THEN r
       ELSE [self |-> self, raised |-> FALSE]

\* add_artist, lines 370-383, for k artists (a single one, or a list):
\* a copy of each is added to the axis, and self.axis_artists += [art_copy]
\* appends it to axis_artists itself.
add_artist(self, axis_num, k) ==
    LET artists == NewArtists(self.artists, k)
    IN [Draw(self, axis_num, artists) EXCEPT
          !.axis_artists = @ \o [j \in 1..k |-> Artist(artists[j])]]

\* A Figure of plot_num axes was made.
InitFigure ==
    /\ dust_evo_data = NewData(CacheLims, CacheCosmological)
    /\ evo = NewEvo(CacheLims, CacheCosmological)
    /\ file = NoFile
    /\ pc = Idle
    /\ last = NoCall
    /\ hist = NewHist
    /\ instances = NoInstances
    /\ dirc_files = NoFiles
    /\ percentile = NoPercentile
    /\ compiled = NoCompiled
    /\ \E plot_num \in 1..MaxPlots : figure = NewFigure(plot_num)

\* The call op(axis_num, ...) has left the Figure as self, with the artists
\* it made.
Called(self, op, axis_num, raised) ==
    [self EXCEPT !.call = [op |-> op, axis_num |-> axis_num,
                           artists |-> NewArtists(figure.artists,
                                                  self.artists - figure.artists),
                           raised |-> raised],
                 !.methods = @ \cup {op}]

\* A call of plot_line_data(axis_num, x_data, y_data), with or without y_std.
PlotLineData ==
    /\ \E axis_num \in 0..(figure.plot_num - 1), std_bars \in BOOLEAN :
          /\ figure.artists + (IF std_bars THEN 2 ELSE 1) <= MaxArtists
          /\ figure' = Called(IF std_bars THEN plot_line_data_std(figure, axis_num)
                              ELSE plot_data(figure, axis_num),
                              "plot_line_data", axis_num, FALSE)
    /\ UNCHANGED <<dust_evo, percentile, compiled>>

\* A call of plot_scatter_data(axis_num, x_data, y_data).
PlotScatterData ==
    /\ \E axis_num \in 0..(figure.plot_num - 1) :
          /\ figure.artists + 1 <= MaxArtists
          /\ figure' = Called(plot_data(figure, axis_num), "plot_scatter_data",
                              axis_num, FALSE)
    /\ UNCHANGED <<dust_evo, percentile, compiled>>

\* A call of plot_errorbar_data(axis_num, x_data, y_data, y_err).
PlotErrorbarData ==
    /\ \E axis_num \in 0..(figure.plot_num - 1) :
          /\ figure.artists + 1 <= MaxArtists
          /\ figure' = Called(plot_data(figure, axis_num), "plot_errorbar_data",
                              axis_num, FALSE)
    /\ UNCHANGED <<dust_evo, percentile, compiled>>

\* A call of plot_shaded_region(axis_num, x_data, y1_data, y2_data).
PlotShadedRegion ==
    /\ \E axis_num \in 0..(figure.plot_num - 1) :
          /\ figure.artists + 1 <= MaxArtists
          /\ figure' = Called(plot_data(figure, axis_num), "plot_shaded_region",
                              axis_num, FALSE)
    /\ UNCHANGED <<dust_evo, percentile, compiled>>

\* A call of plot_polygon(axis_num, x_data, y_data).
PlotPolygon ==
    /\ \E axis_num \in 0..(figure.plot_num - 1) :
          /\ figure.artists + 1 <= MaxArtists
          /\ figure' = Called(plot_polygon(figure, axis_num), "plot_polygon",
                              axis_num, FALSE)
    /\ UNCHANGED <<dust_evo, percentile, compiled>>

\* A call of plot_histogram(axis_num, z_prop, X, Y, Z), lines 202-216.
PlotHistogram ==
    /\ \E axis_num \in 0..(figure.plot_num - 1) :
          /\ figure.artists + 1 <= MaxArtists
          /\ figure' = Called(plot_data(figure, axis_num), "plot_histogram",
                              axis_num, FALSE)
    /\ UNCHANGED <<dust_evo, percentile, compiled>>

\* A call of clear_axis(axis_num).
ClearAxis ==
    /\ \E axis_num \in 0..(figure.plot_num - 1) :
          LET r == clear_axis(figure, axis_num)
          IN figure' = Called(r.self, "clear_axis", axis_num, r.raised)
    /\ UNCHANGED <<dust_evo, percentile, compiled>>

\* A call of add_artist(axis_num, artist), artist being one artist or a list
\* of two.
AddArtist ==
    /\ \E axis_num \in 0..(figure.plot_num - 1), k \in 1..2 :
          /\ figure.artists + k <= MaxArtists
          /\ figure' = Called(add_artist(figure, axis_num, k), "add_artist",
                              axis_num, FALSE)
    /\ UNCHANGED <<dust_evo, percentile, compiled>>

NextFigure ==
    \/ PlotLineData
    \/ PlotScatterData
    \/ PlotErrorbarData
    \/ PlotShadedRegion
    \/ PlotPolygon
    \/ PlotHistogram
    \/ ClearAxis
    \/ AddArtist

SpecFigure == InitFigure /\ [][NextFigure]_vars


(* ------------------------------ claims --------------------------------- *)

\* The number of snapshots of the range of the object.
RangeLen(self) == (self.snap_lims[2] + 1) - self.snap_lims[1]

\* The tracked arrays of the object, by name (redshift only when
\* cosmological).
ArrayNames(self) ==
    {<<"time">>}
        \cup (IF self.cosmological THEN {<<"redshift">>} ELSE {})
        \cup {<<"total", key>> : key \in totals}
        \cup {<<"star", key>> : key \in star_totals}
        \cup {<<"median", sub_key, key>> : sub_key \in median_subsamples, key \in medians}

Arr(self, a) ==
    IF a[1] = "time" THEN self.time
    ELSE IF a[1] = "redshift" THEN self.redshift
    ELSE IF a[1] = "total" THEN self.total_data[a[2]]
    ELSE IF a[1] = "star" THEN self.star_total_data[a[2]]
    ELSE self.median_data[a[2]][a[3]]

\* Every position of the range is marked loaded.
AllLoaded(self) == \A i \in 1..RangeLen(self) : self.snap_loaded[i]

Min(a, b) == IF a <= b THEN a ELSE b

\* C1: in every reachable state snap_loaded and every tracked array have
\* length exactly snap_lims[1] - snap_lims[0] + 1.
C1_Lengths ==
    /\ Len(dust_evo_data.snap_loaded) = RangeLen(dust_evo_data)
    /\ \A a \in ArrayNames(dust_evo_data) :
          Len(Arr(dust_evo_data, a)) = RangeLen(dust_evo_data)

\* C2: a change_snap_lims call that widens the range keeps, for every
\* snapshot number s of the old range, the stored value of every array and
\* the loaded flag, at position s - (new lower limit).
C2_WidenKeepsData ==
    [][(/\ last'.op = "change_snap_lims"
        /\ last'.snap_lims[1] <= dust_evo_data.snap_lims[1]
        /\ last'.snap_lims[2] >= dust_evo_data.snap_lims[2])
       => \A s \in dust_evo_data.snap_lims[1]..dust_evo_data.snap_lims[2] :
            LET old == (s - dust_evo_data.snap_lims[1]) + 1
                new == (s - last'.snap_lims[1]) + 1
            IN /\ dust_evo_data'.snap_loaded[new] = dust_evo_data.snap_loaded[old]
               /\ \A a \in ArrayNames(dust_evo_data) :
                     Arr(dust_evo_data', a)[new] = Arr(dust_evo_data, a)[old]]_vars

\* C2's case: the last call widened the range on both sides of an object
\* that holds loaded data.
C2_Witness ==
    /\ last.op = "change_snap_lims"
    /\ last.snap_lims[1] < last.old_lims[1]
    /\ last.snap_lims[2] > last.old_lims[2]
    /\ \E i \in 1..Len(dust_evo_data.snap_loaded) :
          dust_evo_data.snap_loaded[i] /\ dust_evo_data.time[i] # 0

\* C3: a change_snap_lims call whose upper limit exceeds the current one
\* appends exactly newLims[1] - hi zero-valued, unloaded slots to every
\* tracked array, whether or not the lower limit moves too.
C3_AppendCount ==
    [][(/\ last'.op = "change_snap_lims"
        /\ last'.snap_lims[2] > dust_evo_data.snap_lims[2])
       => LET lo == dust_evo_data.snap_lims[1]
              hi == dust_evo_data.snap_lims[2]
              pre == IF last'.snap_lims[1] < lo THEN lo - last'.snap_lims[1] ELSE 0
              app == last'.snap_lims[2] - hi
          IN /\ Len(dust_evo_data'.snap_loaded)
                    = pre + Len(dust_evo_data.snap_loaded) + app
             /\ \A a \in ArrayNames(dust_evo_data) :
                   /\ Len(Arr(dust_evo_data', a))
                         = pre + Len(Arr(dust_evo_data, a)) + app
                   /\ \A i \in 1..Len(Arr(dust_evo_data', a)) :
                         i > pre + Len(Arr(dust_evo_data, a))
                            => /\ Arr(dust_evo_data', a)[i] = 0
                               /\ ~dust_evo_data'.snap_loaded[i]]_vars

\* C4: a change_snap_lims call whose lower limit is below the current one
\* prepends exactly lo - newLims[0] zero-valued slots, with the loaded flag
\* false, to every tracked array (the old array follows them unchanged) and
\* sets snap_lims[0] to newLims[0].
C4_Prepend ==
    [][(/\ last'.op = "change_snap_lims"
        /\ last'.snap_lims[1] < dust_evo_data.snap_lims[1])
       => LET pre == dust_evo_data.snap_lims[1] - last'.snap_lims[1]
              n == Len(dust_evo_data.snap_loaded)
          IN /\ dust_evo_data'.snap_lims[1] = last'.snap_lims[1]
             /\ Len(dust_evo_data'.snap_loaded) >= pre + n
             /\ SubSeq(dust_evo_data'.snap_loaded, 1, pre) = Falses(pre)
             /\ SubSeq(dust_evo_data'.snap_loaded, pre + 1, pre + n)
                    = dust_evo_data.snap_loaded
             /\ \A a \in ArrayNames(dust_evo_data) :
                   /\ Len(Arr(dust_evo_data', a)) >= pre + n
                   /\ SubSeq(Arr(dust_evo_data', a), 1, pre) = Zeros(pre)
                   /\ SubSeq(Arr(dust_evo_data', a), pre + 1, pre + n)
                         = Arr(dust_evo_data, a)]_vars

\* C4's case: the last call lowered the lower limit of an object that holds
\* loaded data, now found behind the prepended slots.
C4_Witness ==
    /\ last.op = "change_snap_lims"
    /\ last.snap_lims[1] < last.old_lims[1]
    /\ LET pre == last.old_lims[1] - last.snap_lims[1] IN
          /\ Len(dust_evo_data.snap_loaded) > pre
          /\ dust_evo_data.snap_loaded[pre + 1]
          /\ dust_evo_data.time[pre + 1] # 0

\* C5: in every reachable state, also one left behind by a snapshot whose
\* processing an error interrupted, a position whose loaded flag is false
\* holds zero in every tracked array.
C5_UnloadedIsZero ==
    \A i \in 1..Len(dust_evo_data.snap_loaded) :
        ~dust_evo_data.snap_loaded[i]
           => \A a \in ArrayNames(dust_evo_data) : Arr(dust_evo_data, a)[i] = 0

\* C6: when the read of a snapshot fails during load, the call does not
\* raise, the failed position stays unloaded, all_snaps_loaded is not set,
\* and the batch goes on: a position after the failed one is left unloaded
\* only when the batch had its increment of snapshots.
C6_FailureSkipsIndex ==
    (last.op = "load" /\ last.fail # NoFail)
       => LET pos == (last.fail.snum - dust_evo_data.snap_lims[1]) + 1
              left == {i \in (pos + 1)..RangeLen(dust_evo_data) :
                          ~dust_evo_data.snap_loaded[i]}
          IN /\ ~last.raised
             /\ ~dust_evo_data.snap_loaded[pos]
             /\ ~dust_evo_data.all_snaps_loaded
             /\ (left = {} \/ Len(last.reads) - 1 >= last.increment)

\* C7: on a newly constructed object with a selector set, after k load
\* calls of increment m exactly the min(N, k*m) lowest positions are loaded;
\* once k*m >= N, that is after ceil(N/m) calls, every position is loaded
\* and all_snaps_loaded is set.
C7_BatchProgress ==
    (hist.clean /\ hist.inc >= 1 /\ hist.calls < CallCap)
       => LET n == RangeLen(dust_evo_data)
              done == Min(n, hist.calls * hist.inc)
          IN /\ Len(dust_evo_data.snap_loaded) = n
             /\ \A i \in 1..n : dust_evo_data.snap_loaded[i] <=> i <= done
             /\ (hist.calls * hist.inc >= n
                    => AllLoaded(dust_evo_data) /\ dust_evo_data.all_snaps_loaded)
             /\ (hist.calls * hist.inc < n => ~dust_evo_data.all_snaps_loaded)

\* C7's case: a range of three snapshots loaded by two calls of increment 2.
C7_Witness ==
    /\ hist.clean
    /\ hist.calls = 2
    /\ hist.inc = 2
    /\ RangeLen(dust_evo_data) = 3
    /\ AllLoaded(dust_evo_data)
    /\ dust_evo_data.all_snaps_loaded
    /\ last.reads = <<dust_evo_data.snap_lims[2]>>

\* The loaded flags and every tracked array are the same in both objects.
SameData(self, other) ==
    /\ self.snap_loaded = other.snap_loaded
    /\ self.time = other.time
    /\ self.redshift = other.redshift
    /\ self.total_data = other.total_data
    /\ self.star_total_data = other.star_total_data
    /\ self.median_data = other.median_data

\* C8: a load call (Dust_Evo_Data.load, and Dust_Evo.load on an object in
\* memory) made when every position of the range is loaded reads no
\* snapshot and leaves snap_loaded and every tracked array as they were.
C8_LoadIdempotent ==
    [][(/\ AllLoaded(dust_evo_data)
        /\ last'.op \in {"load", "evo_load_begin", "evo_load_batch", "evo_load_return"})
       => /\ last'.reads = <<>>
          /\ ~last'.raised
          /\ SameData(dust_evo_data', dust_evo_data)]_vars

\* C8's case: a batch of Dust_Evo.load ran Dust_Evo_Data.load on a range
\* that was loaded already: it read nothing and only set all_snaps_loaded.
C8_Witness ==
    /\ last.op = "evo_load_batch"
    /\ last.reported = "none"
    /\ ~last.raised
    /\ last.reads = <<>>
    /\ AllLoaded(dust_evo_data)
    /\ dust_evo_data.all_snaps_loaded
    /\ \E i \in 1..RangeLen(dust_evo_data) : dust_evo_data.time[i] # 0

\* C9: a load call made when neither set_halo nor set_disk was called on
\* the object performs no work: no snapshot is read, the object in memory is
\* unchanged and the cache file is not written.
C9_NoWorkUnconfigured ==
    [][(\/ /\ last'.op = "load"
           /\ ~dust_evo_data.setHalo /\ ~dust_evo_data.setDisk
        \/ /\ last'.op \in {"evo_load_begin", "evo_load_batch"}
           /\ ~evo.setHalo /\ ~evo.setDisk)
       => /\ last'.reads = <<>>
          /\ dust_evo_data' = dust_evo_data
          /\ file' = file]_vars

\* C10: after a set_halo (set_disk) call that is not the first, setHalo,
\* setDisk, load_kwargs and set_kwargs are as the first set_halo (set_disk)
\* call left them.
C10_AsFirstCallLeft ==
    /\ (last.op = "set_halo" /\ last.again) => Cfg(dust_evo_data) = hist.halo_first
    /\ (last.op = "set_disk" /\ last.again) => Cfg(dust_evo_data) = hist.disk_first

\* C11: once a selector is set on the object (the first set_halo or
\* set_disk call), no later set_halo or set_disk call changes load_kwargs,
\* set_kwargs or the loader load() uses (halo or disk).
C11_SelectorFrozen ==
    [][(/\ dust_evo_data.setHalo \/ dust_evo_data.setDisk
        /\ last'.op \in {"set_halo", "set_disk"})
       => Selector(dust_evo_data') = Selector(dust_evo_data)]_vars

\* C12: when a Dust_Evo is constructed and the cache file an earlier save()
\* wrote for the same directory, name prefix and dirc exists, the
\* constructor restores dust_evo_data from that file.
C12_ConstructorRestores ==
    [][\A i \in InstIds :
          (last'.op = "cache_construct" /\ last'.inst = i /\ ~last'.raised)
             => LET obj == instances'[i]
                    path == SavePath(obj.dirc, obj.name)
                IN (/\ isfile(dirc_files, path)
                    /\ normpath(dirc_files[path].data.sdir) = normpath(obj.sdir))
                      => obj.dust_evo_data = dirc_files[path].data]_vars

\* C13: two Dust_Evo objects made for different simulation directories,
\* with the same dirc and name_prefix, use different cache files, and no
\* object holds state persisted by an object of another directory.
C13_OwnCacheFile ==
    /\ \A i, j \in DOMAIN instances :
          normpath(instances[i].sdir) # normpath(instances[j].sdir)
             => SavePath(instances[i].dirc, instances[i].name)
                   # SavePath(instances[j].dirc, instances[j].name)
    /\ \A i \in DOMAIN instances :
          normpath(instances[i].dust_evo_data.sdir) = normpath(instances[i].sdir)

\* C14: during Dust_Evo.load the state is saved after every batch: when a
\* batch has returned, and until the next one starts, the cache file holds
\* the object with every position marked loaded so far; a batch that did not
\* return had loaded fewer than increment snapshots.
C14_SavedAfterBatch ==
    last.op = "evo_load_batch"
       => IF last.raised
          THEN Len(last.reads) - 1 < last.increment
          ELSE /\ pc.at = "loop"
               /\ file.exists
               /\ file.data.snap_lims = dust_evo_data.snap_lims
               /\ SameData(file.data, dust_evo_data)

\* C14's case: a batch has returned with part of the range loaded and part
\* still to load, and the file holds the loaded part.
C14_Witness ==
    /\ last.op = "evo_load_batch"
    /\ ~last.raised
    /\ last.reads # <<>>
    /\ pc.at = "loop"
    /\ ~dust_evo_data.all_snaps_loaded
    /\ \E i, j \in 1..RangeLen(dust_evo_data) :
          /\ dust_evo_data.snap_loaded[i]
          /\ file.data.snap_loaded[i]
          /\ ~dust_evo_data.snap_loaded[j]

\* C15: in every reachable state, save() followed by the restore of the cache
\* file as Dust_Evo.load does it yields an object with the same snap_lims,
\* the same tracked arrays and the same loaded flags.
C15_RoundTrip ==
    LET restored == Restore(evo, dust_evo_data, save(dust_evo_data))
    IN /\ restored.snap_lims = dust_evo_data.snap_lims
       /\ SameData(restored, dust_evo_data)

\* C15's case: load() has restored a file save() wrote; the object holds
\* loaded and unloaded positions and its limits are not those of the Dust_Evo,
\* so that the restore went through change_snap_lims.
C15_Witness ==
    /\ last.op = "evo_load_begin"
    /\ file.exists
    /\ evo.snap_lims # file.data.snap_lims
    /\ dust_evo_data.snap_lims = file.data.snap_lims
    /\ SameData(dust_evo_data, file.data)
    /\ \E i, j \in 1..Len(dust_evo_data.snap_loaded) :
          /\ dust_evo_data.snap_loaded[i]
          /\ dust_evo_data.time[i] # 0
          /\ ~dust_evo_data.snap_loaded[j]

\* C16: get_data neither changes nor exposes the stored state: for every
\* data name, subsample and statistic the object is the same before and
\* after the call, and an assignment to the returned array afterwards
\* changes no stored array.
C16_GetDataFrame ==
    [][(last'.op \in {"get_data", "caller_write"})
          => dust_evo_data' = dust_evo_data]_vars

\* C16's case: get_data returned the stored total M_dust of an object that
\* holds loaded data, the caller changed an element of what it got, and the
\* stored element is still the loaded value.
C16_Witness ==
    /\ last.op = "caller_write"
    /\ last.args = <<"M_dust", "all", "total">>
    /\ dust_evo_data.snap_loaded[last.wrote]
    /\ dust_evo_data.total_data["M_dust"][last.wrote] # 0
    /\ last.got.series[last.wrote] # dust_evo_data.total_data["M_dust"][last.wrote]

\* C17: get_data with statistic 'total' and a derived name ('source_*',
\* 'spec_*') gives 0, never nan or inf, at every position where the stored
\* total M_dust is zero, unloaded positions included.
C17_ZeroDustGivesZero ==
    (/\ last.op = "get_data"
     /\ last.args[3] = "total"
     /\ last.got.returned
     /\ last.got.derived)
       => \A i \in 1..Len(last.got.series) :
             dust_evo_data.total_data["M_dust"][i] = 0
                => last.got.series[i] = FloatZero

\* data_name names no stored array and passes no link of the two chains.
UnknownName(self, data_name) ==
    /\ data_name \notin totals \cup medians \cup star_totals \cup {"time"}
    /\ ~(data_name = "redshift" /\ self.cosmological)
    /\ FirstMatch(SourceChain, data_name) = 0
    /\ FirstMatch(SpecChain, data_name) = 0

\* The call looks the subsample up: a median, stored or derived.
UsesSubsample(data_name, statistic) ==
    \/ data_name \in medians
    \/ /\ data_name \notin totals \cup star_totals \cup {"time", "redshift"}
       /\ statistic = "median"
       /\ FirstMatch(SourceChain, data_name) + FirstMatch(SpecChain, data_name) > 0

\* C18: get_data called with an unknown statistic, an unknown data name, or
\* a subsample that is not in median_subsamples for a data name that uses
\* the subsample (the derived 'source_*' and 'spec_*' medians included)
\* prints what is wrong and returns None without raising.
C18_BadArgsReported ==
    (/\ last.op = "get_data"
     /\ \/ last.args[3] \notin {"total", "median"}
        \/ UnknownName(dust_evo_data, last.args[1])
        \/ /\ last.args[2] \notin median_subsamples
           /\ UsesSubsample(last.args[1], last.args[3]))
       => /\ last.got.raised = "none"
          /\ ~last.got.returned
          /\ last.got.printed # "none"

\* C19: whenever get_data returns a series with a position whose loaded flag
\* is false, it has printed the 'Not all snapshots have been loaded'
\* warning in that call.
C19_UnloadedWarned ==
    (/\ last.op = "get_data"
     /\ last.got.returned
     /\ \E i \in 1..Len(last.got.series) : ~dust_evo_data.snap_loaded[i])
       => last.got.warned

\* C20: change_snap_lims called with limits inside the current ones changes
\* nothing: snap_lims, num_snaps, every array and snap_loaded keep their
\* values, and num_snaps is still snap_lims[1] - snap_lims[0] + 1.
C20_NarrowNoOp ==
    [][(/\ last'.op = "change_snap_lims"
        /\ last'.snap_lims[1] >= dust_evo_data.snap_lims[1]
        /\ last'.snap_lims[2] <= dust_evo_data.snap_lims[2])
       => /\ dust_evo_data'.snap_lims = dust_evo_data.snap_lims
          /\ dust_evo_data'.num_snaps = dust_evo_data.num_snaps
          /\ SameData(dust_evo_data', dust_evo_data)
          /\ dust_evo_data'.num_snaps = RangeLen(dust_evo_data')]_vars

\* The positions of the range whose loaded flag is false.
Unloaded(self) == {i \in 1..RangeLen(self) : ~self.snap_loaded[i]}

\* C21: one Dust_Evo_Data.load(increment = m) call with a selector set, every
\* snapshot it reads being readable, reads the snapshots in ascending order
\* and newly marks exactly the min(m, U) lowest unloaded positions of the
\* range, U being the number of unloaded positions at entry; the positions
\* loaded at entry are not read and keep their flag and their stored values.
C21_LoadsLowestUnloaded ==
    [][(/\ last'.op = "load"
        /\ dust_evo_data.setHalo \/ dust_evo_data.setDisk
        /\ ~last'.raised)
       => LET before == Unloaded(dust_evo_data)
              newly == {i \in 1..Len(dust_evo_data'.snap_loaded) :
                           /\ dust_evo_data'.snap_loaded[i]
                           /\ ~dust_evo_data.snap_loaded[i]}
              reads == last'.reads
          IN /\ Cardinality(newly) = Min(last'.increment, Cardinality(before))
             /\ newly \subseteq before
             /\ \A i \in newly, j \in before \ newly : i < j
             /\ \A k \in 1..(Len(reads) - 1) : reads[k] < reads[k + 1]
             /\ {reads[k] : k \in 1..Len(reads)}
                   = {dust_evo_data.snap_lims[1] + (i - 1) : i \in newly}
             /\ \A i \in 1..Len(dust_evo_data.snap_loaded) :
                   dust_evo_data.snap_loaded[i]
                      => /\ dust_evo_data'.snap_loaded[i]
                         /\ \A a \in ArrayNames(dust_evo_data) :
                               Arr(dust_evo_data', a)[i] = Arr(dust_evo_data, a)[i]]_vars

\* C21's case: a load of increment 2 on the range [0, 2] whose middle
\* snapshot was loaded already read snapshots 0 and 2, in that order, and
\* left the middle position as it was.
C21_Witness ==
    /\ last.op = "load"
    /\ ~last.raised
    /\ last.increment = 2
    /\ last.reads = <<0, 2>>
    /\ dust_evo_data.snap_lims = <<0, 2>>
    /\ dust_evo_data.snap_loaded[2]
    /\ dust_evo_data.time[2] = SnapTime(1)

\* np.median(a): the middle value of the sorted array, the mean of the two
\* middle values when their number is even.
Median(a) ==
    LET a_sort == Take(a, CHOOSE idx \in argsort(a) : TRUE)
        n == Len(a)
    IN IF n % 2 = 1 THEN Frac(a_sort[(n + 1) \div 2], 1)
       ELSE Frac(a_sort[n \div 2] + a_sort[(n \div 2) + 1], 2)

\* The weights are equal: None, or the same positive weight for every value.
EqualWeights(weights) ==
    \/ weights = None
    \/ \A i, j \in 1..Len(weights) : weights[i] = weights[j]

\* C22: weighted_percentile on the values [1, 2, 3, 4] with equal weights
\* gives 2.5 as the 50th percentile, and for equal weights the 50th
\* percentile is the unweighted median of the values.
C22_EqualWeightsMedian ==
    (/\ percentile.called
     /\ Len(percentile.a) > 0
     /\ EqualWeights(percentile.weights))
       => LET k == CHOOSE k \in 1..Len(percentile.percentiles) :
                       percentile.percentiles[k] = 50
          IN /\ percentile.values[k] = Median(percentile.a)
             /\ percentile.a = <<1, 2, 3, 4>> => percentile.values[k] = Frac(5, 2)

\* The position that holds all the weight, 0 when the weight is not all on
\* one position.
OnlyWeighted(weights) ==
    IF weights = None THEN 0
    ELSE LET at == {i \in 1..Len(weights) : weights[i] > 0}
         IN IF Cardinality(at) = 1 THEN CHOOSE i \in at : TRUE ELSE 0

\* C23: with all the weight on one element, every other weight zero, the
\* 50th percentile weighted_percentile gives is the value of that element,
\* wherever it is in the sorted order of the values.
C23_SingleWeightElement ==
    (/\ percentile.called
     /\ Len(percentile.a) > 0
     /\ OnlyWeighted(percentile.weights) # 0)
       => LET k == CHOOSE k \in 1..Len(percentile.percentiles) :
                       percentile.percentiles[k] = 50
          IN percentile.values[k] = Frac(percentile.a[OnlyWeighted(percentile.weights)], 1)

\* C24: for a median subsample whose name is none of 'all', 'cold', 'hot',
\* 'neutral', 'molecular', load() uses the mask of every selected gas
\* particle: at every loaded position the medians stored for that subsample
\* are the medians stored for the subsample 'all'.
C24_UnsupportedSubsampleIsAll ==
    \A subsample \in median_subsamples \ {"all", "cold", "hot", "neutral", "molecular"} :
        \A i \in 1..Len(dust_evo_data.snap_loaded) :
            dust_evo_data.snap_loaded[i]
               => \A prop \in medians :
                     dust_evo_data.median_data[subsample][prop][i]
                        = dust_evo_data.median_data["all"][prop][i]

\* C24's case: a load() call that returned has stored, at a position it read,
\* medians for the subsample 'diffuse' that are those of 'all' and not those
\* of 'cold'.
C24_Witness ==
    /\ last.op = "load"
    /\ ~last.raised
    /\ last.reads # <<>>
    /\ \E i \in 1..Len(dust_evo_data.snap_loaded) :
          /\ dust_evo_data.snap_loaded[i]
          /\ dust_evo_data.snap_lims[1] + (i - 1) = last.reads[1]
          /\ dust_evo_data.median_data["diffuse"]["D/Z"][i] # 0
          /\ dust_evo_data.median_data["diffuse"]["D/Z"][i]
                = dust_evo_data.median_data["all"]["D/Z"][i]
          /\ dust_evo_data.median_data["diffuse"]["D/Z"][i]
                # dust_evo_data.median_data["cold"]["D/Z"][i]

\* C25: at every position loaded from a snapshot in which no star was
\* selected, every entry of star_total_data is zero, and the position is
\* marked loaded.
C25_NoStarsGivesZero ==
    \A i \in 1..RangeLen(dust_evo_data) :
        (/\ dust_evo_data.snap_loaded[i]
         /\ StarNpart(dust_evo_data.snap_lims[1] + (i - 1)) = 0)
           => \A prop \in star_totals : dust_evo_data.star_total_data[prop][i] = 0

\* C25's case: a load() call read snapshot 0, which holds no star, and
\* another snapshot: the position of snapshot 0 is marked loaded, holds the
\* time of the snapshot and zero star totals, the other position holds star
\* totals that are not zero.
C25_Witness ==
    /\ last.op = "load"
    /\ ~last.raised
    /\ last.reads = <<0, 1>>
    /\ dust_evo_data.snap_lims[1] = 0
    /\ StarNpart(0) = 0
    /\ dust_evo_data.snap_loaded[1]
    /\ dust_evo_data.time[1] = SnapTime(0)
    /\ \A prop \in star_totals :
          /\ dust_evo_data.star_total_data[prop][1] = 0
          /\ dust_evo_data.star_total_data[prop][2] # 0

\* The least whole number that is not below a / b.
CeilDiv(a, b) == (a + (b - 1)) \div b

\* C26: a Dust_Evo.load(increment) call made after set_halo or set_disk on
\* this Dust_Evo ends, whatever the increment, the range and the cache file
\* it restores: it runs at most ceil(U/increment) + 1 batches, U being the
\* number of unloaded positions of the range when the loop is entered, and
\* when it returns every position of the range is loaded.
C26_LoadTerminates ==
    (evo.setHalo \/ evo.setDisk)
       => /\ last.op \in {"evo_load_batch", "evo_load_return"}
                => last.batches <= CeilDiv(last.unloaded, last.increment) + 1
          /\ (last.op = "evo_load_return" /\ evo.k # 0)
                => AllLoaded(dust_evo_data)

\* C27: in every reachable state of a Dust_Evo_Data, after any load and
\* change_snap_lims calls, all_snaps_loaded being set implies that every
\* element of snap_loaded is true.
C27_AllLoadedFlag ==
    dust_evo_data.all_snaps_loaded
       => \A i \in 1..Len(dust_evo_data.snap_loaded) : dust_evo_data.snap_loaded[i]

\* C28: the selector a batch of Dust_Evo.load reads its snapshots with is the
\* one set on this Dust_Evo before load was called, also when load restored
\* a cache file of an earlier session: after set_halo alone the halo with
\* the arguments passed to set_halo, after set_disk alone the disk with the
\* arguments passed to set_disk.
C28_SelectorOfThisInstance ==
    (last.op = "evo_load_batch" /\ last.reads # <<>>)
       => /\ (evo.setHalo /\ ~evo.setDisk)
                => last.selector = [kind |-> "halo",
                                    load_kwargs |-> EvoHaloKwargs[1],
                                    set_kwargs |-> EvoHaloKwargs[2]]
          /\ (evo.setDisk /\ ~evo.setHalo)
                => last.selector = [kind |-> "disk",
                                    load_kwargs |-> EvoDiskKwargs[1],
                                    set_kwargs |-> EvoDiskKwargs[2]]

\* C29: in compile_dust_data with mask=True, cosmological=True and r_max not
\* given, the radius of the spherical mask applied to snapshot n is Rvir_frac
\* times the virial radius of snapshot n, whichever snapshots were processed
\* before it.
C29_RadiusOfSameSnapshot ==
    (/\ compiled.at # "none"
     /\ compiled.args.mask
     /\ compiled.args.cosmological
     /\ compiled.args.r_max = NoRadius)
       => \A i \in 1..Len(compiled.rows) :
             compiled.rows[i].r_max
                = FracMul(Rvir(compiled.rows[i].num), Frac(compiled.args.Rvir_frac, 1))

\* C30: after any plot_line_data, plot_scatter_data, plot_errorbar_data,
\* plot_shaded_region, clear_axis and add_artist calls on a Figure,
\* axis_artists has exactly plot_num entries, each the list of the artists
\* of its axis: the artists a call put on axis k are recorded in the entry of
\* axis k, and clear_axis(k) empties the entry of axis k and no other.
C30_AxisArtists ==
    [][figure'.methods \subseteq
           {"plot_line_data", "plot_scatter_data", "plot_errorbar_data",
            "plot_shaded_region", "clear_axis", "add_artist"}
       => LET axis_num == figure'.call.axis_num IN
          /\ Len(figure'.axis_artists) = figure'.plot_num
          /\ \A i \in 1..Len(figure'.axis_artists) :
                /\ figure'.axis_artists[i].list
                /\ \A j \in 1..Len(figure'.axis_artists[i].items) :
                      ~figure'.axis_artists[i].items[j].in_list
          /\ figure'.call.op # "clear_axis"
                => Range(figure'.call.artists)
                      \subseteq {figure'.axis_artists[axis_num + 1].items[j].artist :
                                    j \in 1..Len(figure'.axis_artists[axis_num + 1].items)}
          /\ figure'.call.op = "clear_axis"
                => /\ figure'.axis_artists[axis_num + 1] = List(<<>>)
                   /\ \A i \in 1..Len(figure.axis_artists) :
                         i # axis_num + 1
                            => figure'.axis_artists[i] = figure.axis_artists[i]]_vars

====
